---- MODULE Spec2Model ----
(***************************************************************************)
(* A model of the NES 6502 interpreter: the memory bus (Memory), the       *)
(* flags register (Flag), the CPU (CPU.run and the instruction handlers)   *)
(* and the PPU clock (PPU.run).  Values are Python integers: registers     *)
(* are not masked unless the code masks them, a negative index into the    *)
(* bytearray counts from its end, and an index outside it raises.          *)
(***************************************************************************)
EXTENDS Integers, Sequences, FiniteSets, TLC

VARIABLES
    mem,            \* Memory.mem: the 64 KiB bytearray, as its non-zero cells
    is_mirror,      \* Memory.is_mirror
    pc, sp, acc, x, y, cycles,      \* CPU registers and cycle counter
    enabled_flags,  \* self.enabled_flags as the CPU's Flag sees it
    class_flags,    \* Flag.enabled_flags, the list that is an attribute of the class
    own_flags,      \* the CPU's Flag has an attribute enabled_flags of its own
    control, mask, status, ppu_cycles,  \* PPU.control/.mask/.status/.cycles
    err,            \* "" or the exception that ended the last call
    budget,         \* the host stops calling CPU.run at this many cycles
    nmi,            \* what CPU.handle_nmi saw when it was entered in the last run
    hist,           \* the last operation and the state it started from
    prev            \* hist as it was before the last CPU.run

vars == <<mem, is_mirror, pc, sp, acc, x, y, cycles, enabled_flags, class_flags, own_flags,
          control, mask, status, ppu_cycles, err, budget, nmi, hist, prev>>

---------------------------------------------------------------------------
(* Bounds of the model *)

\* CPU.run is not called once the cycle counter has reached this value.
MaxCycles == 40

\* The same, for the programs that run into the first vertical blank.
MaxFrameCycles == 82200

\* Number of instructions of the programs placed in PRG ROM.
ProgLen == 4

---------------------------------------------------------------------------
(* Python integer operations *)

\* What a function returns when it falls off its end (PPU.handle_read).
None == -1000000

\* v & mask # 0 for a single-bit mask, on Python's unbounded integers.
Bit(v, m) == (v \div m) % 2 = 1

\* ~a as the negation of a
BitNot_neg(a) == -a

BitNot(a) == (-a) - 1

RECURSIVE BitAnd(_, _)
BitAnd(a, b) ==
    IF a = 0 \/ b = 0 THEN 0
    ELSE IF a = -1 THEN b
    ELSE IF b = -1 THEN a
    ELSE (a % 2) * (b % 2) + 2 * BitAnd(a \div 2, b \div 2)

RECURSIVE BitOr(_, _)
BitOr(a, b) ==
    IF a = 0 THEN b
    ELSE IF b = 0 THEN a
    ELSE IF a = -1 \/ b = -1 THEN -1
    ELSE (IF a % 2 = 1 \/ b % 2 = 1 THEN 1 ELSE 0) + 2 * BitOr(a \div 2, b \div 2)

RECURSIVE BitXor(_, _)
BitXor(a, b) ==
    IF a = 0 THEN b
    ELSE IF b = 0 THEN a
    ELSE IF a = -1 THEN BitNot(b)
    ELSE IF b = -1 THEN BitNot(a)
    ELSE (IF a % 2 = b % 2 THEN 0 ELSE 1) + 2 * BitXor(a \div 2, b \div 2)

\* int.from_bytes(instr_bytes, byteorder="little")
RECURSIVE from_bytes(_)
from_bytes(bs) == IF bs = <<>> THEN 0 ELSE Head(bs) + 256 * from_bytes(Tail(bs))

\* signed_byte_to_int without the sign: the byte as it is
signed_byte_to_int_unsigned(byte, byte_len) == byte

\* byte_math.signed_byte_to_int(byte, byte_len)
signed_byte_to_int(byte, byte_len) ==
    LET msk == 2 ^ (byte_len - 1)
    IN  (-BitAnd(byte, msk)) + BitAnd(byte, BitNot(msk))

---------------------------------------------------------------------------
(* opcodes6502.opcodes: opcode, mnemonic, length, cycles, page-cross cycles *)

OpcodeTable == {
    <<\h69, "ADC", 2, 2, 0>>, <<\h65, "ADC", 2, 3, 0>>, <<\h75, "ADC", 2, 4, 0>>, <<\h6D, "ADC", 3, 4, 0>>,
    <<\h7D, "ADC", 3, 4, 1>>, <<\h79, "ADC", 3, 4, 1>>, <<\h61, "ADC", 2, 6, 0>>, <<\h71, "ADC", 2, 5, 1>>,
    <<\h29, "AND", 2, 2, 0>>, <<\h25, "AND", 2, 3, 0>>, <<\h35, "AND", 2, 4, 0>>, <<\h2D, "AND", 3, 4, 0>>,
    <<\h3D, "AND", 3, 4, 1>>, <<\h39, "AND", 3, 4, 1>>, <<\h21, "AND", 2, 6, 0>>, <<\h31, "AND", 2, 5, 1>>,
    <<\h0A, "ASL", 1, 2, 0>>, <<\h06, "ASL", 2, 5, 0>>, <<\h16, "ASL", 2, 6, 0>>, <<\h0E, "ASL", 3, 6, 0>>,
    <<\h1E, "ASL", 3, 7, 0>>, <<\h24, "BIT", 2, 3, 0>>, <<\h2C, "BIT", 3, 4, 0>>, <<\h10, "BPL", 2, 2, 1>>,
    <<\h30, "BMI", 2, 2, 1>>, <<\h50, "BVC", 2, 2, 1>>, <<\h70, "BVS", 2, 2, 1>>, <<\h90, "BCC", 2, 2, 1>>,
    <<\hB0, "BCS", 2, 2, 1>>, <<\hD0, "BNE", 2, 2, 1>>, <<\hF0, "BEQ", 2, 2, 1>>, <<\h00, "BRK", 1, 7, 0>>,
    <<\hC9, "CMP", 2, 2, 0>>, <<\hC5, "CMP", 2, 3, 0>>, <<\hD5, "CMP", 2, 4, 0>>, <<\hCD, "CMP", 3, 4, 0>>,
    <<\hDD, "CMP", 3, 4, 1>>, <<\hD9, "CMP", 3, 4, 1>>, <<\hC1, "CMP", 2, 6, 0>>, <<\hD1, "CMP", 2, 5, 1>>,
    <<\hE0, "CPX", 2, 2, 0>>, <<\hE4, "CPX", 2, 3, 0>>, <<\hEC, "CPX", 3, 4, 0>>, <<\hC0, "CPY", 2, 2, 0>>,
    <<\hC4, "CPY", 2, 3, 0>>, <<\hCC, "CPY", 3, 4, 0>>, <<\hC6, "DEC", 2, 5, 0>>, <<\hD6, "DEC", 2, 6, 0>>,
    <<\hCE, "DEC", 3, 6, 0>>, <<\hDE, "DEC", 3, 7, 0>>, <<\h49, "EOR", 2, 2, 0>>, <<\h45, "EOR", 2, 3, 0>>,
    <<\h55, "EOR", 2, 4, 0>>, <<\h4D, "EOR", 3, 4, 0>>, <<\h5D, "EOR", 3, 4, 1>>, <<\h59, "EOR", 3, 4, 1>>,
    <<\h41, "EOR", 2, 6, 0>>, <<\h51, "EOR", 2, 5, 1>>, <<\h18, "CLC", 1, 2, 0>>, <<\h38, "SEC", 1, 2, 0>>,
    <<\h58, "CLI", 1, 2, 0>>, <<\h78, "SEI", 1, 2, 0>>, <<\hB8, "CLV", 1, 2, 0>>, <<\hD8, "CLD", 1, 2, 0>>,
    <<\hF8, "SED", 1, 2, 0>>, <<\hE6, "INC", 2, 5, 0>>, <<\hF6, "INC", 2, 6, 0>>, <<\hEE, "INC", 3, 6, 0>>,
    <<\hFE, "INC", 3, 7, 0>>, <<\h4C, "JMP", 3, 3, 0>>, <<\h6C, "JMP", 3, 5, 0>>, <<\h20, "JSR", 3, 6, 0>>,
    <<\hA9, "LDA", 2, 2, 0>>, <<\hA5, "LDA", 2, 3, 0>>, <<\hB5, "LDA", 2, 4, 0>>, <<\hAD, "LDA", 3, 4, 0>>,
    <<\hBD, "LDA", 3, 4, 1>>, <<\hB9, "LDA", 3, 4, 1>>, <<\hA1, "LDA", 2, 6, 0>>, <<\hB1, "LDA", 2, 5, 1>>,
    <<\hA2, "LDX", 2, 2, 0>>, <<\hA6, "LDX", 2, 3, 0>>, <<\hB6, "LDX", 2, 4, 0>>, <<\hAE, "LDX", 3, 4, 0>>,
    <<\hBE, "LDX", 3, 4, 1>>, <<\hA0, "LDY", 2, 2, 0>>, <<\hA4, "LDY", 2, 3, 0>>, <<\hB4, "LDY", 2, 4, 0>>,
    <<\hAC, "LDY", 3, 4, 0>>, <<\hBC, "LDY", 3, 4, 1>>, <<\h4A, "LSR", 1, 2, 0>>, <<\h46, "LSR", 2, 5, 0>>,
    <<\h56, "LSR", 2, 6, 0>>, <<\h4E, "LSR", 3, 6, 0>>, <<\h5E, "LSR", 3, 7, 0>>, <<\hEA, "NOP", 1, 2, 0>>,
    <<\h09, "ORA", 2, 2, 0>>, <<\h05, "ORA", 2, 3, 0>>, <<\h15, "ORA", 2, 4, 0>>, <<\h0D, "ORA", 3, 4, 0>>,
    <<\h1D, "ORA", 3, 4, 1>>, <<\h19, "ORA", 3, 4, 1>>, <<\h01, "ORA", 2, 6, 0>>, <<\h11, "ORA", 2, 5, 1>>,
    <<\hAA, "TAX", 1, 2, 0>>, <<\h8A, "TXA", 1, 2, 0>>, <<\hCA, "DEX", 1, 2, 0>>, <<\hE8, "INX", 1, 2, 0>>,
    <<\hA8, "TAY", 1, 2, 0>>, <<\h98, "TYA", 1, 2, 0>>, <<\h88, "DEY", 1, 2, 0>>, <<\hC8, "INY", 1, 2, 0>>,
    <<\h2A, "ROL", 1, 2, 0>>, <<\h26, "ROL", 2, 5, 0>>, <<\h36, "ROL", 2, 6, 0>>, <<\h2E, "ROL", 3, 6, 0>>,
    <<\h3E, "ROL", 3, 7, 0>>, <<\h6A, "ROR", 1, 2, 0>>, <<\h66, "ROR", 2, 5, 0>>, <<\h76, "ROR", 2, 6, 0>>,
    <<\h6E, "ROR", 3, 6, 0>>, <<\h7E, "ROR", 3, 7, 0>>, <<\h40, "RTI", 1, 6, 0>>, <<\h60, "RTS", 1, 6, 0>>,
    <<\hE9, "SBC", 2, 2, 0>>, <<\hE5, "SBC", 2, 3, 0>>, <<\hF5, "SBC", 2, 4, 0>>, <<\hED, "SBC", 3, 4, 0>>,
    <<\hFD, "SBC", 3, 4, 1>>, <<\hF9, "SBC", 3, 4, 1>>, <<\hE1, "SBC", 2, 6, 0>>, <<\hF1, "SBC", 2, 5, 1>>,
    <<\h85, "STA", 2, 3, 0>>, <<\h95, "STA", 2, 4, 0>>, <<\h8D, "STA", 3, 4, 0>>, <<\h9D, "STA", 3, 5, 0>>,
    <<\h99, "STA", 3, 5, 0>>, <<\h81, "STA", 2, 6, 0>>, <<\h91, "STA", 2, 6, 0>>, <<\h9A, "TXS", 1, 2, 0>>,
    <<\hBA, "TSX", 1, 2, 0>>, <<\h48, "PHA", 1, 3, 0>>, <<\h68, "PLA", 1, 4, 0>>, <<\h08, "PHP", 1, 3, 0>>,
    <<\h28, "PLP", 1, 4, 0>>, <<\h86, "STX", 2, 3, 0>>, <<\h96, "STX", 2, 4, 0>>, <<\h8E, "STX", 3, 4, 0>>,
    <<\h84, "STY", 2, 3, 0>>, <<\h94, "STY", 2, 4, 0>>, <<\h8C, "STY", 3, 4, 0>>, <<\h07, "iSLO", 2, 5, 0>>,
    <<\h17, "iSLO", 2, 6, 0>>, <<\h03, "iSLO", 2, 8, 0>>, <<\h13, "iSLO", 2, 8, 0>>, <<\h0F, "iSLO", 3, 6, 0>>,
    <<\h1F, "iSLO", 3, 7, 0>>, <<\h1B, "iSLO", 3, 7, 0>>, <<\h27, "iRLA", 2, 5, 0>>, <<\h37, "iRLA", 2, 6, 0>>,
    <<\h23, "iRLA", 2, 8, 0>>, <<\h33, "iRLA", 2, 8, 0>>, <<\h2F, "iRLA", 3, 6, 0>>, <<\h3F, "iRLA", 3, 7, 0>>,
    <<\h3B, "iRLA", 3, 7, 0>>, <<\h47, "iSRE", 2, 5, 0>>, <<\h57, "iSRE", 2, 6, 0>>, <<\h43, "iSRE", 2, 8, 0>>,
    <<\h53, "iSRE", 2, 8, 0>>, <<\h4F, "iSRE", 3, 6, 0>>, <<\h5F, "iSRE", 3, 7, 0>>, <<\h5B, "iSRE", 3, 7, 0>>,
    <<\h67, "iRRA", 2, 5, 0>>, <<\h77, "iRRA", 2, 6, 0>>, <<\h63, "iRRA", 2, 8, 0>>, <<\h73, "iRRA", 2, 8, 0>>,
    <<\h6F, "iRRA", 3, 6, 0>>, <<\h7F, "iRRA", 3, 7, 0>>, <<\h7B, "iRRA", 3, 7, 0>>, <<\h87, "iSAX", 2, 3, 0>>,
    <<\h97, "iSAX", 2, 4, 0>>, <<\h83, "iSAX", 2, 6, 0>>, <<\h8F, "iSAX", 3, 4, 0>>, <<\hA7, "iLAX", 2, 3, 0>>,
    <<\hB7, "iLAX", 2, 4, 0>>, <<\hA3, "iLAX", 2, 6, 0>>, <<\hB3, "iLAX", 2, 5, 1>>, <<\hAF, "iLAX", 3, 4, 0>>,
    <<\hBF, "iLAX", 3, 4, 1>>, <<\hC7, "iDCP", 2, 5, 0>>, <<\hD7, "iDCP", 2, 6, 0>>, <<\hC3, "iDCP", 2, 8, 0>>,
    <<\hD3, "iDCP", 2, 8, 0>>, <<\hCF, "iDCP", 3, 6, 0>>, <<\hDF, "iDCP", 3, 7, 0>>, <<\hDB, "iDCP", 3, 7, 0>>,
    <<\hE7, "iISC", 2, 5, 0>>, <<\hF7, "iISC", 2, 6, 0>>, <<\hE3, "iISC", 2, 8, 0>>, <<\hF3, "iISC", 2, 8, 0>>,
    <<\hEF, "iISC", 3, 6, 0>>, <<\hFF, "iISC", 3, 7, 0>>, <<\hFB, "iISC", 3, 7, 0>>, <<\h0B, "iANC", 2, 2, 0>>,
    <<\h2B, "iANC", 2, 2, 0>>, <<\h4B, "iALR", 2, 2, 0>>, <<\h6B, "iARR", 2, 2, 0>>, <<\hCB, "iSBX", 2, 2, 0>>,
    <<\hEB, "iSBC", 2, 2, 0>>, <<\hBB, "iLAS", 3, 4, 1>>, <<\h1A, "iNOP", 1, 2, 0>>, <<\h3A, "iNOP", 1, 2, 0>>,
    <<\h5A, "iNOP", 1, 2, 0>>, <<\h7A, "iNOP", 1, 2, 0>>, <<\hDA, "iNOP", 1, 2, 0>>, <<\hFA, "iNOP", 1, 2, 0>>,
    <<\h80, "iNOP", 2, 2, 0>>, <<\h82, "iNOP", 2, 2, 0>>, <<\hC2, "iNOP", 2, 2, 0>>, <<\hE2, "iNOP", 2, 2, 0>>,
    <<\h89, "iNOP", 2, 2, 0>>, <<\h04, "iNOP", 2, 3, 0>>, <<\h44, "iNOP", 2, 3, 0>>, <<\h64, "iNOP", 2, 3, 0>>,
    <<\h14, "iNOP", 2, 4, 0>>, <<\h34, "iNOP", 2, 4, 0>>, <<\h54, "iNOP", 2, 4, 0>>, <<\h74, "iNOP", 2, 4, 0>>,
    <<\hD4, "iNOP", 2, 4, 0>>, <<\hF4, "iNOP", 2, 4, 0>>, <<\h0C, "iNOP", 3, 4, 0>>, <<\h1C, "iNOP", 3, 4, 1>>,
    <<\h3C, "iNOP", 3, 4, 1>>, <<\h5C, "iNOP", 3, 4, 1>>, <<\h7C, "iNOP", 3, 4, 1>>, <<\hDC, "iNOP", 3, 4, 1>>,
    <<\hFC, "iNOP", 3, 4, 1>>, <<\h02, "iJAM", 1, 0, 0>>, <<\h12, "iJAM", 1, 0, 0>>, <<\h22, "iJAM", 1, 0, 0>>,
    <<\h32, "iJAM", 1, 0, 0>>, <<\h42, "iJAM", 1, 0, 0>>, <<\h52, "iJAM", 1, 0, 0>>, <<\h62, "iJAM", 1, 0, 0>>,
    <<\h72, "iJAM", 1, 0, 0>>, <<\h92, "iJAM", 1, 0, 0>>, <<\hB2, "iJAM", 1, 0, 0>>, <<\hD2, "iJAM", 1, 0, 0>>,
    <<\hF2, "iJAM", 1, 0, 0>>
}

OpcodeKeys == {t[1] : t \in OpcodeTable}

opcodes ==
    [b \in OpcodeKeys |->
        LET t == CHOOSE t \in OpcodeTable : t[1] = b
        IN  [mnemonic |-> t[2], length |-> t[3], cycles |-> t[4], page |-> t[5]]]

---------------------------------------------------------------------------
(* ppu.py constants *)

REGISTERS == {\h2000, \h2001, \h2002, \h2003, \h2004, \h2005, \h2006, \h2007, \h4014}
SCANLINES_PER_FRAME == 262
CYCLES_PER_SCANLINE == 341
CYCLES_PER_FRAME == CYCLES_PER_SCANLINE * SCANLINES_PER_FRAME
CYCLE_POSTRENDER == 240 * CYCLES_PER_SCANLINE
CYCLE_VBLANK == 241 * CYCLES_PER_SCANLINE

---------------------------------------------------------------------------
(* class Flag *)

Flag_N == 128
Flag_V == 64
Flag_U == 32    \* Flag._
Flag_B == 16
Flag_D == 8
Flag_I == 4
Flag_Z == 2
Flag_C == 1

INIT_FLAGS == {Flag_U, Flag_I}
VALUES == {Flag_N, Flag_V, Flag_U, Flag_B, Flag_D, Flag_I, Flag_Z, Flag_C}

\* sum(self.enabled_flags); the list never holds a flag twice (Flag.set)
RECURSIVE SumSet(_)
SumSet(S) == IF S = {} THEN 0 ELSE LET e == CHOOSE e \in S : TRUE IN e + SumSet(S \ {e})

get_byte(flags) == SumSet(flags)

isset(m, flag) == flag \in m.flag

\* self.enabled_flags is the list of the class until set_byte has given the
\* instance one of its own: append and remove then change the list of the class.
in_place(m, flags) ==
    IF m.err # "" THEN m
    ELSE [m EXCEPT !.flag = flags, !.class_flag = IF m.own THEN @ ELSE flags]

set(m, flag) == in_place(m, m.flag \cup {flag})

clear(m, flag) == in_place(m, m.flag \ {flag})

toggle(m, flag) == IF isset(m, flag) THEN clear(m, flag) ELSE set(m, flag)

\* if cond: self.flag.set(flag)
set_if(m, cond, flag) == IF cond THEN set(m, flag) ELSE m

\* set_byte starting from an empty list instead of INIT_FLAGS
set_byte_bits(m, byte) ==
    IF m.err # "" THEN m
    ELSE [m EXCEPT !.flag = {f \in VALUES : BitAnd(byte, f) # 0}, !.own = TRUE]

\* Flag.set_byte: start from INIT_FLAGS, then set every flag whose bit is in byte
set_byte(m, byte) ==
    IF m.err # "" THEN m
    ELSE [m EXCEPT !.flag = INIT_FLAGS \cup {f \in VALUES : BitAnd(byte, f) # 0},
                   !.own = TRUE]

---------------------------------------------------------------------------
(* class Memory *)

\* The bytearray is zero-filled; only its non-zero cells are kept.
Cell(mm, i) == IF i \in DOMAIN mm THEN mm[i] ELSE 0

Store(mm, i, v) ==
    IF v = 0 THEN [a \in DOMAIN mm \ {i} |-> mm[a]]
    ELSE [a \in DOMAIN mm \cup {i} |-> IF a = i THEN v ELSE mm[a]]

\* bytearray indexing: -len..-1 count from the end, anything else outside raises
InRange(i) == i >= -(\hFFFF + 1) /\ i <= \hFFFF
Index(i) == IF i < 0 THEN i + \hFFFF + 1 ELSE i

page_num(addr) == addr \div \hFF

\* map_byte with the RAM mirrors taken to be 4 KiB apart
map_byte_4k(byte) ==
    IF byte >= 0 /\ byte <= \h1FFF THEN byte % \h1000
    ELSE IF byte >= \h2000 /\ byte <= \h3FFF THEN ((byte - \h2000) % \h08) + \h2000
    ELSE IF is_mirror /\ byte >= \hC000 /\ byte <= \hFFFF THEN byte - \h4000
    ELSE byte

map_byte(byte) ==
    IF byte >= 0 /\ byte <= \h1FFF THEN byte % \h0800
    ELSE IF byte >= \h2000 /\ byte <= \h3FFF THEN ((byte - \h2000) % \h08) + \h2000
    ELSE IF is_mirror /\ byte >= \hC000 /\ byte <= \hFFFF THEN byte - \h4000
    ELSE byte

\* PPU.handle_read
handle_read(m, addr) == IF addr = \h2002 THEN m.status ELSE None

\* PPU.handle_write
handle_write(m, addr, data) ==
    IF addr = \h2000 THEN [m EXCEPT !.control = data]
    ELSE IF addr = \h2001 THEN [m EXCEPT !.mask = data]
    ELSE m

\* Memory.read raises IndexError exactly when this holds
read_raises(byte) == map_byte(byte) \notin REGISTERS /\ ~InRange(map_byte(byte))

\* Memory.read: the PPU is handed the address as the caller gave it
read(m, byte) ==
    LET mapped == map_byte(byte)
    IN  IF mapped \in REGISTERS THEN handle_read(m, byte)
        ELSE Cell(m.mem, Index(mapped))

Raise(m, e) == IF m.err # "" THEN m ELSE [m EXCEPT !.err = e]

\* Memory.write
write(m, byte, data) ==
    IF m.err # "" THEN m
    ELSE IF byte >= \h8000 THEN m
    ELSE LET mapped == map_byte(byte)
         IN  IF mapped \in REGISTERS THEN handle_write(m, byte, data)
             ELSE IF ~InRange(mapped) THEN Raise(m, "IndexError")
             ELSE [m EXCEPT !.mem = Store(@, Index(mapped), data % \h100)]

---------------------------------------------------------------------------
(* class CPU: vectors, stack, interrupts *)

\* reset_vector reading the IRQ vector's cells instead of 0xFFFC/0xFFFD
reset_vector_irq(m) == read(m, \hFFFE) + read(m, \hFFFF) * 256

reset_vector(m) == read(m, \hFFFC) + read(m, \hFFFD) * 256

irq_vector(m) == read(m, \hFFFE) + read(m, \hFFFF) * 256

nmi_vector(m) == read(m, \hFFFA) + read(m, \hFFFB) * 256

stack_push(m, val) ==
    IF m.err # "" THEN m
    ELSE IF m.sp < 0 THEN Raise(m, "StackFull")
    ELSE [write(m, \h100 + m.sp, val % \h100) EXCEPT !.sp = @ - 1]

\* CPU.stack_pop: the state after the pop, and the value it returns
stack_pop(m) ==
    IF m.err # "" THEN m
    ELSE IF m.sp = \hFF THEN Raise(m, "StackEmpty")
    ELSE [m EXCEPT !.sp = @ + 1]

\* stack_pop returning the byte below the one SP points at after the pop
popped_below(m) == read(m, \h100 + m.sp - 1)

popped(m) == read(m, \h100 + m.sp)

\* CPU.handle_nmi: always ends in its raise Exception("")
handle_nmi(m) ==
    LET seen == [taken |-> TRUE, pc |-> m.pc, sp |-> m.sp,
                 flag |-> m.flag, cycles |-> m.cycles]
        m0 == [m EXCEPT !.nmi = seen]
        m1 == stack_push(m0, m.pc \div 256)
        m2 == stack_push(m1, m.pc % 256)
        m3 == stack_push(m2, get_byte(m.flag))
    IN  IF m3.err # "" THEN m3
        ELSE Raise([m3 EXCEPT !.pc = nmi_vector(m3), !.cycles = @ + 7], "nmi")

\* PPU.run that never finds the counter past the post-render line
ppu_run_never_vblank(m) ==
    IF m.err # "" THEN m
    ELSE [m EXCEPT !.status = BitAnd(@, BitNot(\h80)), !.ppu_cycles = @ + 1]

\* PPU.run
ppu_run(m) ==
    IF m.err # "" THEN m
    ELSE IF m.ppu_cycles % CYCLES_PER_FRAME > CYCLE_POSTRENDER
    THEN LET m1 == [m EXCEPT !.status = BitOr(@, \h80)]
         IN  IF m1.ppu_cycles % CYCLES_PER_FRAME = CYCLE_VBLANK
                /\ BitAnd(m1.control, \h80) # 0
             THEN handle_nmi(m1)
             ELSE [m1 EXCEPT !.ppu_cycles = @ + 1]
    ELSE [m EXCEPT !.status = BitAnd(@, BitNot(\h80)), !.ppu_cycles = @ + 1]

\* for _ in range(n): self.ppu.run(self)
RECURSIVE catch_up(_, _)
catch_up(m, n) == IF n <= 0 \/ m.err # "" THEN m ELSE catch_up(ppu_run(m), n - 1)

\* A handler whose returned cycle count CPU.run does not keep
Ret_pc(m, new_pc, new_cycles) ==
    IF m.err # "" THEN m ELSE [m EXCEPT !.pc = new_pc]

\* return new_pc, new_cycles; CPU.run assigns them when the handler returns
Ret(m, new_pc, new_cycles) ==
    IF m.err # "" THEN m ELSE [m EXCEPT !.pc = new_pc, !.cycles = new_cycles]

---------------------------------------------------------------------------
(* class CPU: instruction handlers.  Each takes the opcode byte, its table  *)
(* entry and the operand word, as CPU.run passes them.                      *)

\* (upper << 8) + lower
Word(lower, upper) == upper * 256 + lower

\* cpu_helper: the addressing helpers.  Each returns what Memory.read gives
\* it (None for a PPU register that is not 0x2002); absxy and indy return it
\* with their page-cross flag.
imm(val) == val

zp(m, addr) == read(m, addr % \h100)

zpx(m, addr, xr) == read(m, (addr + xr) % \h100)

abs(m, addr) == read(m, addr)

absxy(m, addr, xr) == <<read(m, addr + xr), BitAnd(addr, \hFF) + xr > \hFF>>

indx(m, addr, xr) ==
    read(m, Word(read(m, (addr + xr) % \h100), read(m, (addr + xr + 1) % \h100)))

indy(m, addr, yr) ==
    LET lower == read(m, addr % \h100)
        upper == read(m, (addr + 1) % \h100)
    IN  <<read(m, Word(lower, upper) + yr), lower + yr > \hFF>>

\* A boolean that always counts as 0
AsInt_zero(b) == 0

\* True and False as the integers Python adds and multiplies them as
AsInt(b) == IF b THEN 1 ELSE 0

instruction_ADC(m, byte, instr, addr) ==
    LET raises == CASE byte = \h6D -> read_raises(addr)
                    [] byte = \h7D -> read_raises(addr + m.x)
                    [] byte = \h79 -> read_raises(addr + m.y)
                    [] byte = \h61 ->
                         read_raises(Word(read(m, (addr + m.x) % \h100),
                                          read(m, (addr + m.x + 1) % \h100)))
                    [] byte = \h71 ->
                         read_raises(Word(read(m, addr % \h100),
                                          read(m, (addr + 1) % \h100)) + m.y)
                    [] OTHER -> FALSE
        data == CASE byte = \h69 -> imm(addr)
                  [] byte = \h65 -> zp(m, addr)
                  [] byte = \h75 -> zpx(m, addr, m.x)
                  [] byte = \h6D -> abs(m, addr)
                  [] byte = \h7D -> absxy(m, addr, m.x)[1]
                  [] byte = \h79 -> absxy(m, addr, m.y)[1]
                  [] byte = \h61 -> indx(m, addr, m.x)
                  [] byte = \h71 -> indy(m, addr, m.y)[1]
        pbc == CASE byte = \h7D -> absxy(m, addr, m.x)[2]
                 [] byte = \h79 -> absxy(m, addr, m.y)[2]
                 [] byte = \h71 -> indy(m, addr, m.y)[2]
                 [] OTHER -> FALSE
    IN  IF raises THEN Raise(m, "IndexError")
        ELSE IF data = None THEN Raise(m, "TypeError")
        ELSE
          LET old_acc == m.acc
              sum == m.acc + data + AsInt(isset(m, Flag_C))
              m1 == clear(clear(clear(clear(m, Flag_N), Flag_Z), Flag_C), Flag_V)
              m2 == set_if(m1, BitAnd(BitAnd(BitXor(old_acc, sum), BitXor(data, sum)),
                                      \h80) # 0, Flag_V)
              m3 == set_if(m2, sum >= 256, Flag_C)
              m4 == set_if(m3, BitAnd(sum, 128) # 0, Flag_N)
              m5 == [m4 EXCEPT !.acc = sum % \h100]
              m6 == set_if(m5, m5.acc = 0, Flag_Z)
          IN  Ret(m6, m.pc + instr.length,
                  m.cycles + instr.cycles + instr.page * AsInt(pbc))

\* The arithmetic shared by instruction_SBC and instruction_iSBC on the
\* operand data, up to the return
subtract(m, data) ==
    LET old_acc == m.acc
        sum == m.acc + BitNot(data) + AsInt(isset(m, Flag_C))
        m1 == clear(set(clear(clear(m, Flag_N), Flag_Z), Flag_C), Flag_V)
        m2 == IF sum < 0 THEN clear(m1, Flag_C) ELSE m1
        m3 == set_if(m2, BitAnd(sum, 128) # 0, Flag_N)
        m4 == [m3 EXCEPT !.acc = sum % \h100]
        m5 == set_if(m4, m4.acc = 0, Flag_Z)
    IN  set_if(m5, BitAnd(BitAnd(BitXor(old_acc, m4.acc),
                                 BitNot(BitXor(data, m4.acc))), \h80) # 0, Flag_V)

instruction_SBC(m, byte, instr, addr0) ==
    LET addr1 == IF byte = \hF5 THEN (addr0 + m.x) % \h100
                 ELSE IF byte = \hFD \/ byte = \hE1 THEN addr0 + m.x
                 ELSE addr0
        addr2 == IF byte = \hF9 THEN addr1 + m.y ELSE addr1
        addr3 == IF byte = \hE1
                 THEN Word(read(m, addr2 % \h100), read(m, (addr2 + 1) % \h100))
                 ELSE addr2
        addr4 == IF byte = \hF1
                 THEN Word(read(m, addr3 % \h100), read(m, (addr3 + 1) % \h100)) + m.y
                 ELSE addr3
        data == IF byte # \hE9 THEN read(m, addr4 % \h10000) ELSE addr4
    IN  IF data = None THEN Raise(m, "TypeError")
        ELSE Ret(subtract(m, data), m.pc + instr.length,
                 m.cycles + instr.cycles
                 + instr.page * AsInt(page_num(m.pc) # page_num(addr4)))

instruction_iSBC(m, byte, instr, data) ==
    Ret(subtract(m, data), m.pc + instr.length, m.cycles + instr.cycles)

\* The body shared by the eight branch handlers, taken is the flag test
branch(m, instr, addr, taken) ==
    LET new_pc == m.pc + instr.length
        target == new_pc + signed_byte_to_int(addr, 8)
    IN  IF taken
        THEN Ret(m, target,
                 m.cycles + instr.cycles + 1
                 + (IF page_num(m.pc) # page_num(target) THEN instr.page ELSE 0))
        ELSE Ret(m, new_pc, m.cycles + instr.cycles)

instruction_BCC(m, byte, instr, addr) == branch(m, instr, addr, ~isset(m, Flag_C))
instruction_BCS(m, byte, instr, addr) == branch(m, instr, addr, isset(m, Flag_C))
instruction_BEQ(m, byte, instr, addr) == branch(m, instr, addr, isset(m, Flag_Z))
instruction_BMI(m, byte, instr, addr) == branch(m, instr, addr, isset(m, Flag_N))
instruction_BNE(m, byte, instr, addr) == branch(m, instr, addr, ~isset(m, Flag_Z))
instruction_BPL(m, byte, instr, addr) == branch(m, instr, addr, ~isset(m, Flag_N))
instruction_BVC(m, byte, instr, addr) == branch(m, instr, addr, ~isset(m, Flag_V))
instruction_BVS(m, byte, instr, addr) == branch(m, instr, addr, isset(m, Flag_V))

instruction_CLC(m, byte, instr, addr) ==
    Ret(clear(m, Flag_C), m.pc + instr.length, m.cycles + instr.cycles)

instruction_CLI(m, byte, instr, addr) ==
    Ret(clear(m, Flag_I), m.pc + instr.length, m.cycles + instr.cycles)

instruction_SEC(m, byte, instr, addr) ==
    Ret(set(m, Flag_C), m.pc + instr.length, m.cycles + instr.cycles)

instruction_SEI(m, byte, instr, addr) ==
    Ret(set(m, Flag_I), m.pc + instr.length, m.cycles + instr.cycles)

instruction_NOP(m, byte, instr, addr) ==
    Ret(m, m.pc + instr.length, m.cycles + instr.cycles)

instruction_INC(m, byte, instr, addr0) ==
    LET m1 == clear(clear(m, Flag_N), Flag_Z)
        addr == IF byte = \hF6 THEN (addr0 + m.x) % \h100
                ELSE IF byte = \hFE THEN addr0 + m.x
                ELSE addr0
    IN  IF read_raises(addr) THEN Raise(m1, "IndexError")
        ELSE IF read(m1, addr) = None THEN Raise(m1, "TypeError")
        ELSE LET m2 == write(m1, addr, (read(m1, addr) + 1) % \h100)
                 m3 == set_if(m2, read(m2, addr) = 0, Flag_Z)
                 m4 == set_if(m3, Bit(read(m3, addr), \h80), Flag_N)
             IN  Ret(m4, m.pc + instr.length, m.cycles + instr.cycles)

instruction_JMP(m, byte, instr, addr) ==
    IF byte = \h4C THEN Ret(m, addr, m.cycles + instr.cycles)
    ELSE LET broken_addr == BitAnd(addr, \hFF00) + BitAnd(addr + 1, \h00FF)
             low == read(m, addr)
             high == read(m, broken_addr)
         IN  IF read_raises(addr) \/ read_raises(broken_addr) THEN Raise(m, "IndexError")
             ELSE IF low = None \/ high = None THEN Raise(m, "TypeError")
             ELSE Ret(m, Word(low, high), m.cycles + instr.cycles)

instruction_JSR(m, byte, instr, addr) ==
    LET tostack == m.pc + instr.length - 1
        m1 == stack_push(m, tostack \div 256)
        m2 == stack_push(m1, BitAnd(tostack, \hFF))
    IN  Ret(m2, addr, m.cycles + instr.cycles)

instruction_LDA(m, byte, instr, addr0) ==
    LET m1 == clear(clear(m, Flag_N), Flag_Z)
        addr1 == IF byte = \hB5 THEN (addr0 + m.x) % \h100
                 ELSE IF byte = \hBD \/ byte = \hA1 THEN addr0 + m.x
                 ELSE addr0
        addr2 == IF byte = \hB9 THEN addr1 + m.y ELSE addr1
        addr3 == IF byte = \hA1
                 THEN Word(read(m1, addr2 % \h100), read(m1, (addr2 + 1) % \h100))
                 ELSE addr2
        addr4 == IF byte = \hB1
                 THEN Word(read(m1, addr3 % \h100), read(m1, (addr3 + 1) % \h100)) + m.y
                 ELSE addr3
        data == IF byte # \hA9 THEN read(m1, addr4 % \h10000) ELSE addr4
        m2 == [m1 EXCEPT !.acc = data]
        m3 == set_if(m2, data = 0, Flag_Z)
    IN  IF data = None THEN Raise(m3, "TypeError")
        ELSE Ret(set_if(m3, data >= 128, Flag_N),
                 m.pc + instr.length,
                 m.cycles + instr.cycles
                 + instr.page * (IF page_num(m.pc) # page_num(addr4) THEN 1 ELSE 0))

instruction_LDX(m, byte, instr, addr0) ==
    LET m1 == clear(clear(m, Flag_N), Flag_Z)
        addr == IF byte = \hB6 THEN (addr0 + m.y) % \h100
                ELSE IF byte = \hBE THEN addr0 + m.y
                ELSE addr0
        data == IF byte # \hA2 THEN read(m1, addr) ELSE addr
        m2 == [m1 EXCEPT !.x = data]
        m3 == set_if(m2, data = 0, Flag_Z)
    IN  IF byte # \hA2 /\ read_raises(addr) THEN Raise(m1, "IndexError")
        ELSE IF data = None THEN Raise(m3, "TypeError")
        ELSE Ret(set_if(m3, data >= \h80, Flag_N),
                 m.pc + instr.length,
                 m.cycles + instr.cycles
                 + instr.page * (IF page_num(m.pc) # page_num(addr) THEN 1 ELSE 0))

instruction_PHA(m, byte, instr, addr) ==
    Ret(stack_push(m, m.acc), m.pc + instr.length, m.cycles + instr.cycles)

instruction_PHP(m, byte, instr, addr) ==
    Ret(stack_push(m, BitOr(get_byte(m.flag), Flag_B)),
        m.pc + instr.length, m.cycles + instr.cycles)

instruction_PLA(m, byte, instr, addr) ==
    LET m1 == clear(clear(m, Flag_Z), Flag_N)
        m2 == stack_pop(m1)
        m3 == IF m2.err # "" THEN m2 ELSE [m2 EXCEPT !.acc = popped(m2)]
        m4 == set_if(m3, m3.acc = 0, Flag_Z)
        m5 == set_if(m4, Bit(m3.acc, \h80), Flag_N)
    IN  Ret(m5, m.pc + instr.length, m.cycles + instr.cycles)

\* PLP that hands the popped byte to set_byte as it is
instruction_PLP_with_B(m, byte, instr, addr) ==
    LET m1 == stack_pop(m)
        m2 == set_byte(m1, popped(m1))
    IN  Ret(m2, m.pc + instr.length, m.cycles + instr.cycles)

instruction_PLP(m, byte, instr, addr) ==
    LET m1 == stack_pop(m)
        m2 == set_byte(m1, BitAnd(popped(m1), BitNot(Flag_B)))
    IN  Ret(m2, m.pc + instr.length, m.cycles + instr.cycles)

instruction_RTI(m, byte, instr, addr) ==
    LET m1 == stack_pop(m)
        flags == BitAnd(popped(m1), BitNot(Flag_B))
        m2 == stack_pop(m1)
        lower == popped(m2)
        m3 == stack_pop(m2)
        higher == popped(m3)
        new_pc == lower + higher * 256
        m4 == set_byte(m3, flags)
    IN  Ret(m4, new_pc, m.cycles + instr.cycles)

instruction_RTS(m, byte, instr, addr) ==
    LET m1 == stack_pop(m)
        lower == popped(m1)
        m2 == stack_pop(m1)
        higher == popped(m2)
        new_pc == lower + higher * 256
    IN  Ret(m2, new_pc + instr.length, m.cycles + instr.cycles)

instruction_STA(m, byte, instr, addr0) ==
    LET addr1 == IF byte = \h95 \/ byte = \h9D \/ byte = \h81 THEN addr0 + m.x ELSE addr0
        addr2 == IF byte = \h95 THEN addr1 % \h100 ELSE addr1
        addr3 == IF byte = \h99 THEN addr2 + m.y ELSE addr2
        addr4 == IF byte = \h81
                 THEN Word(read(m, addr3 % \h100), read(m, (addr3 + 1) % \h100))
                 ELSE addr3
        addr5 == IF byte = \h91
                 THEN Word(read(m, addr4 % \h100), read(m, (addr4 + 1) % \h100)) + m.y
                 ELSE addr4
    IN  Ret(write(m, addr5 % \h10000, m.acc), m.pc + instr.length, m.cycles + instr.cycles)

instruction_TSX(m, byte, instr, addr) ==
    LET m1 == clear(clear(m, Flag_Z), Flag_N)
        m2 == [m1 EXCEPT !.x = m.sp]
        m3 == set_if(m2, m2.x = 0, Flag_Z)
        m4 == set_if(m3, Bit(m2.x, \h80), Flag_N)
    IN  Ret(m4, m.pc + instr.length, m.cycles + instr.cycles)

instruction_TXS(m, byte, instr, addr) ==
    Ret([m EXCEPT !.sp = m.x], m.pc + instr.length, m.cycles + instr.cycles)

\* getattr(self, "instruction_" + instr[0]) called on (byte, instr, data)
\* The address arithmetic that AND, CMP, EOR, ORA and the unofficial
\* read-modify-write handlers repeat; op names the opcode of each indexed form
operand_address(m, byte, addr0, op) ==
    LET addr1 == IF byte = op.zpx THEN (addr0 + m.x) % \h100
                 ELSE IF byte = op.absx \/ byte = op.indx THEN addr0 + m.x
                 ELSE addr0
        addr2 == IF byte \in op.absy THEN addr1 + m.y ELSE addr1
        addr3 == IF byte = op.indx
                 THEN Word(read(m, addr2 % \h100), read(m, (addr2 + 1) % \h100))
                 ELSE addr2
    IN  IF byte = op.indy
        THEN Word(read(m, addr3 % \h100), read(m, (addr3 + 1) % \h100)) + m.y
        ELSE addr3

\* instr[3] * (self.mem.page_num(self.pc) != self.mem.page_num(addr))
page_penalty(m, instr, addr) == instr.page * AsInt(page_num(m.pc) # page_num(addr))

instruction_AND(m, byte, instr, addr0) ==
    LET m1 == clear(clear(m, Flag_N), Flag_Z)
        addr == operand_address(m1, byte, addr0,
                    [zpx |-> \h35, absx |-> \h3D, indx |-> \h21, absy |-> {\h39}, indy |-> \h31])
        data == IF byte # \h29 THEN read(m1, addr % \h10000) ELSE addr
        m2 == [m1 EXCEPT !.acc = BitAnd(m.acc, data)]
        m3 == set_if(m2, m2.acc = 0, Flag_Z)
    IN  IF data = None THEN Raise(m1, "TypeError")
        ELSE Ret(set_if(m3, m2.acc >= 128, Flag_N), m.pc + instr.length,
                 m.cycles + instr.cycles + page_penalty(m, instr, addr))

instruction_ASL(m, byte, instr, addr0) ==
    LET m1 == clear(clear(clear(m, Flag_N), Flag_Z), Flag_C)
        addr == IF byte = \h16 THEN (addr0 + m.x) % \h100
                ELSE IF byte = \h1E THEN addr0 + m.x
                ELSE addr0
    IN  IF byte = \h0A
        THEN LET m2 == set_if(m1, Bit(m.acc, \h80), Flag_C)
                 m3 == [m2 EXCEPT !.acc = (m.acc * 2) % \h100]
                 m4 == set_if(m3, Bit(m3.acc, \h80), Flag_N)
             IN  Ret(set_if(m4, m3.acc = 0, Flag_Z), m.pc + instr.length,
                     m.cycles + instr.cycles)
        ELSE IF read_raises(addr) THEN Raise(m1, "IndexError")
        ELSE IF read(m1, addr) = None THEN Raise(m1, "TypeError")
        ELSE LET data == read(m1, addr)
                 m2 == set_if(m1, Bit(data, \h80), Flag_C)
                 m3 == write(m2, addr, (data * 2) % \h100)
                 m4 == set_if(m3, Bit(read(m3, addr), \h80), Flag_N)
             IN  Ret(set_if(m4, read(m3, addr) = 0, Flag_Z), m.pc + instr.length,
                     m.cycles + instr.cycles)

instruction_CMP(m, byte, instr, addr0) ==
    LET m1 == clear(clear(clear(m, Flag_N), Flag_Z), Flag_C)
        addr == operand_address(m1, byte, addr0,
                    [zpx |-> \hD5, absx |-> \hDD, indx |-> \hC1, absy |-> {\hD9}, indy |-> \hD1])
        data == IF byte # \hC9 THEN read(m1, addr % \h10000) ELSE addr
        m2 == set_if(m1, m.acc >= data, Flag_C)
        m3 == set_if(m2, m.acc = data, Flag_Z)
    IN  IF data = None THEN Raise(m1, "TypeError")
        ELSE Ret(set_if(m3, Bit((m.acc - data) % \h100, 128), Flag_N),
                 m.pc + instr.length,
                 m.cycles + instr.cycles + page_penalty(m, instr, addr))

instruction_DEC(m, byte, instr, addr0) ==
    LET m1 == clear(clear(m, Flag_N), Flag_Z)
        addr == IF byte = \hD6 THEN (addr0 + m.x) % \h100
                ELSE IF byte = \hDE THEN addr0 + m.x
                ELSE addr0
    IN  IF read_raises(addr) THEN Raise(m1, "IndexError")
        ELSE IF read(m1, addr) = None THEN Raise(m1, "TypeError")
        ELSE LET m2 == write(m1, addr, (read(m1, addr) - 1) % \h100)
                 m3 == set_if(m2, read(m2, addr) = 0, Flag_Z)
                 m4 == set_if(m3, Bit(read(m3, addr), \h80), Flag_N)
             IN  Ret(m4, m.pc + instr.length, m.cycles + instr.cycles)

instruction_EOR(m, byte, instr, addr0) ==
    LET m1 == clear(clear(m, Flag_N), Flag_Z)
        addr == operand_address(m1, byte, addr0,
                    [zpx |-> \h55, absx |-> \h5D, indx |-> \h41, absy |-> {\h59}, indy |-> \h51])
        data == IF byte # \h49 THEN read(m1, addr % \h10000) ELSE addr
        m2 == [m1 EXCEPT !.acc = BitXor(m.acc, data)]
        m3 == set_if(m2, m2.acc = 0, Flag_Z)
    IN  IF data = None THEN Raise(m1, "TypeError")
        ELSE Ret(set_if(m3, m2.acc >= 128, Flag_N), m.pc + instr.length,
                 m.cycles + instr.cycles + page_penalty(m, instr, addr))

instruction_LDY(m, byte, instr, addr0) ==
    LET m1 == clear(clear(m, Flag_N), Flag_Z)
        addr == IF byte = \hB4 THEN (addr0 + m.x) % \h100
                ELSE IF byte = \hBC THEN addr0 + m.x
                ELSE addr0
        data == IF byte # \hA0 THEN read(m1, addr) ELSE addr
        m2 == [m1 EXCEPT !.y = data]
        m3 == set_if(m2, data = 0, Flag_Z)
    IN  IF byte # \hA0 /\ read_raises(addr) THEN Raise(m1, "IndexError")
        ELSE IF data = None THEN Raise(m3, "TypeError")
        ELSE Ret(set_if(m3, data >= \h80, Flag_N), m.pc + instr.length,
                 m.cycles + instr.cycles + page_penalty(m, instr, addr))

instruction_LSR(m, byte, instr, addr0) ==
    LET m1 == clear(clear(clear(m, Flag_N), Flag_Z), Flag_C)
        addr == IF byte = \h56 THEN (addr0 + m.x) % \h100
                ELSE IF byte = \h5E THEN addr0 + m.x
                ELSE addr0
        old_data == IF byte = \h4A THEN m.acc ELSE read(m1, addr)
        m2 == IF byte = \h4A THEN [m1 EXCEPT !.acc = m.acc \div 2]
              ELSE write(m1, addr, old_data \div 2)
        new_data == IF byte = \h4A THEN m2.acc ELSE read(m2, addr)
        m3 == set_if(m2, Bit(old_data, \h01), Flag_C)
        m4 == set_if(m3, new_data = 0, Flag_Z)
    IN  IF byte # \h4A /\ read_raises(addr) THEN Raise(m1, "IndexError")
        ELSE IF old_data = None THEN Raise(m1, "TypeError")
        ELSE Ret(set_if(m4, Bit(new_data, \h80), Flag_N), m.pc + instr.length,
                 m.cycles + instr.cycles + page_penalty(m, instr, addr))

instruction_ORA(m, byte, instr, addr0) ==
    LET m1 == clear(clear(m, Flag_N), Flag_Z)
        addr == operand_address(m1, byte, addr0,
                    [zpx |-> \h15, absx |-> \h1D, indx |-> \h01, absy |-> {\h19}, indy |-> \h11])
        data == IF byte # \h09 THEN read(m1, addr % \h10000) ELSE addr
        m2 == [m1 EXCEPT !.acc = BitOr(m.acc, data)]
        m3 == set_if(m2, m2.acc = 0, Flag_Z)
    IN  IF data = None THEN Raise(m1, "TypeError")
        ELSE Ret(set_if(m3, m2.acc >= 128, Flag_N), m.pc + instr.length,
                 m.cycles + instr.cycles + page_penalty(m, instr, addr))

\* What ROL and ROR do once old_data and new_data are known
rotate_flags(m, carry, new_data) ==
    LET m1 == clear(clear(clear(m, Flag_N), Flag_Z), Flag_C)
        m2 == set_if(m1, carry, Flag_C)
        m3 == set_if(m2, new_data = 0, Flag_Z)
    IN  set_if(m3, Bit(new_data, \h80), Flag_N)

instruction_ROL(m, byte, instr, addr0) ==
    LET addr == IF byte = \h36 THEN (addr0 + m.x) % \h100
                ELSE IF byte = \h3E THEN addr0 + m.x
                ELSE addr0
        old_data == IF byte = \h2A THEN m.acc ELSE read(m, addr)
        rotated == (old_data * 2 + AsInt(isset(m, Flag_C))) % \h100
        m1 == IF byte = \h2A THEN [m EXCEPT !.acc = rotated] ELSE write(m, addr, rotated)
        new_data == IF byte = \h2A THEN m1.acc ELSE read(m1, addr)
    IN  IF byte # \h2A /\ read_raises(addr) THEN Raise(m, "IndexError")
        ELSE IF old_data = None THEN Raise(m, "TypeError")
        ELSE Ret(rotate_flags(m1, Bit(old_data, \h80), new_data), m.pc + instr.length,
                 m.cycles + instr.cycles + page_penalty(m, instr, addr))

instruction_ROR(m, byte, instr, addr0) ==
    LET addr == IF byte = \h76 THEN (addr0 + m.x) % \h100
                ELSE IF byte = \h7E THEN addr0 + m.x
                ELSE addr0
        old_data == IF byte = \h6A THEN m.acc ELSE read(m, addr)
        rotated == (old_data \div 2) + AsInt(isset(m, Flag_C)) * 128
        m1 == IF byte = \h6A THEN [m EXCEPT !.acc = rotated] ELSE write(m, addr, rotated)
        new_data == IF byte = \h6A THEN m1.acc ELSE read(m1, addr)
    IN  IF byte # \h6A /\ read_raises(addr) THEN Raise(m, "IndexError")
        ELSE IF old_data = None THEN Raise(m, "TypeError")
        ELSE Ret(rotate_flags(m1, Bit(old_data, \h01), new_data), m.pc + instr.length,
                 m.cycles + instr.cycles + page_penalty(m, instr, addr))

\* STX adding Y to the zero-page operand without wrapping it
instruction_STX_unwrapped(m, byte, instr, addr0) ==
    LET addr == IF byte = \h96 THEN addr0 + m.y ELSE addr0
    IN  Ret(write(m, addr % \h10000, m.x), m.pc + instr.length, m.cycles + instr.cycles)

instruction_STX(m, byte, instr, addr0) ==
    LET addr == IF byte = \h96 THEN (addr0 + m.y) % \h100 ELSE addr0
    IN  Ret(write(m, addr % \h10000, m.x), m.pc + instr.length, m.cycles + instr.cycles)

instruction_STY(m, byte, instr, addr0) ==
    LET addr == IF byte = \h94 THEN (addr0 + m.x) % \h100 ELSE addr0
    IN  Ret(write(m, addr % \h10000, m.y), m.pc + instr.length, m.cycles + instr.cycles)

instruction_iDCP(m, byte, instr, addr0) ==
    LET m1 == clear(clear(clear(m, Flag_N), Flag_Z), Flag_C)
        addr == operand_address(m1, byte, addr0,
                    [zpx |-> \hD7, absx |-> \hDF, indx |-> \hC3, absy |-> {\hD8, \hDB}, indy |-> \hD3])
        data == (read(m1, addr) - 1) % \h100
        m2 == write(m1, addr, data)
        m3 == set_if(m2, m.acc >= data, Flag_C)
        m4 == set_if(m3, m.acc = data, Flag_Z)
    IN  IF read_raises(addr) THEN Raise(m1, "IndexError")
        ELSE IF read(m1, addr) = None THEN Raise(m1, "TypeError")
        ELSE Ret(set_if(m4, Bit((m.acc - data) % \h100, \h80), Flag_N),
                 m.pc + instr.length, m.cycles + instr.cycles)

instruction_iISC(m, byte, instr, addr0) ==
    LET addr == operand_address(m, byte, addr0,
                    [zpx |-> \hF7, absx |-> \hFF, indx |-> \hE3, absy |-> {\hFB}, indy |-> \hF3])
        data == (read(m, addr) + 1) % \h100
    IN  IF read_raises(addr) THEN Raise(m, "IndexError")
        ELSE IF read(m, addr) = None THEN Raise(m, "TypeError")
        ELSE Ret(subtract(write(m, addr, data), data),
                 m.pc + instr.length, m.cycles + instr.cycles)

instruction_iLAX(m, byte, instr, addr0) ==
    LET m1 == clear(clear(m, Flag_N), Flag_Z)
        addr1 == IF byte = \hB7 THEN (addr0 + m.y) % \h100
                 ELSE IF byte = \hBF THEN addr0 + m.y
                 ELSE addr0
        addr2 == IF byte = \hA3
                 THEN Word(read(m1, (addr1 + m.x) % \h100), read(m1, (addr1 + m.x + 1) % \h100))
                 ELSE addr1
        addr == IF byte = \hB3
                THEN Word(read(m1, addr2 % \h100), read(m1, (addr2 + 1) % \h100)) + m.y
                ELSE addr2
        data == read(m1, addr % \h10000)
        m2 == [m1 EXCEPT !.x = data, !.acc = data]
        m3 == set_if(m2, data = 0, Flag_Z)
    IN  IF data = None THEN Raise(m3, "TypeError")
        ELSE Ret(set_if(m3, data >= \h80, Flag_N), m.pc + instr.length,
                 m.cycles + instr.cycles + page_penalty(m, instr, addr))

instruction_iNOP(m, byte, instr, addr) ==
    Ret(m, m.pc + instr.length, m.cycles + instr.cycles + page_penalty(m, instr, addr))

instruction_iRLA(m, byte, instr, addr0) ==
    LET addr == operand_address(m, byte, addr0,
                    [zpx |-> \h37, absx |-> \h3F, indx |-> \h23, absy |-> {\h3B}, indy |-> \h33])
        old_data == read(m, addr)
        m1 == write(m, addr, (old_data * 2 + AsInt(isset(m, Flag_C))) % \h100)
        new_data == read(m1, addr)
        m2 == clear(clear(clear(m1, Flag_N), Flag_Z), Flag_C)
        m3 == set_if(m2, Bit(old_data, \h80), Flag_C)
        m4 == [m3 EXCEPT !.acc = BitAnd(m.acc, new_data)]
        m5 == set_if(m4, m4.acc = 0, Flag_Z)
    IN  IF read_raises(addr) THEN Raise(m, "IndexError")
        ELSE IF old_data = None THEN Raise(m, "TypeError")
        ELSE Ret(set_if(m5, m4.acc >= 128, Flag_N),
                 m.pc + instr.length, m.cycles + instr.cycles)

instruction_iRRA(m, byte, instr, addr0) ==
    LET addr == operand_address(m, byte, addr0,
                    [zpx |-> \h77, absx |-> \h7F, indx |-> \h63, absy |-> {\h7B}, indy |-> \h73])
        old_data == read(m, addr)
        m1 == write(m, addr, (old_data \div 2) + AsInt(isset(m, Flag_C)) * 128)
        new_data == read(m1, addr)
        m2 == set_if(m1, Bit(old_data, \h01), Flag_C)
        old_acc == m.acc
        sum == m.acc + new_data + AsInt(isset(m2, Flag_C))
        m3 == clear(clear(clear(clear(m2, Flag_N), Flag_Z), Flag_C), Flag_V)
        m4 == set_if(m3, BitAnd(BitAnd(BitXor(old_acc, sum), BitXor(new_data, sum)), \h80) # 0,
                     Flag_V)
        m5 == set_if(m4, sum >= 256, Flag_C)
        m6 == set_if(m5, BitAnd(sum, 128) # 0, Flag_N)
        m7 == [m6 EXCEPT !.acc = sum % \h100]
    IN  IF read_raises(addr) THEN Raise(m, "IndexError")
        ELSE IF old_data = None THEN Raise(m, "TypeError")
        ELSE Ret(set_if(m7, m7.acc = 0, Flag_Z),
                 m.pc + instr.length, m.cycles + instr.cycles)

instruction_iSAX(m, byte, instr, addr0) ==
    LET addr1 == IF byte = \h97 THEN (addr0 + m.y) % \h100 ELSE addr0
        addr == IF byte = \h83
                THEN Word(read(m, (addr1 + m.x) % \h100), read(m, (addr1 + m.x + 1) % \h100))
                ELSE addr1
    IN  Ret(write(m, addr, BitAnd(m.acc, m.x)), m.pc + instr.length, m.cycles + instr.cycles)

instruction_iSLO(m, byte, instr, addr0) ==
    LET m1 == clear(clear(clear(m, Flag_N), Flag_Z), Flag_C)
        addr == operand_address(m1, byte, addr0,
                    [zpx |-> \h17, absx |-> \h1F, indx |-> \h03, absy |-> {\h1B}, indy |-> \h13])
        m2 == set_if(m1, Bit(read(m1, addr), \h80), Flag_C)
        data == (read(m1, addr) * 2) % \h100
        m3 == write(m2, addr, data)
        m4 == [m3 EXCEPT !.acc = BitOr(m.acc, data)]
        m5 == set_if(m4, m4.acc = 0, Flag_Z)
    IN  IF read_raises(addr) THEN Raise(m1, "IndexError")
        ELSE IF read(m1, addr) = None THEN Raise(m1, "TypeError")
        ELSE Ret(set_if(m5, m4.acc >= 128, Flag_N),
                 m.pc + instr.length, m.cycles + instr.cycles)

\* iSRE that does not clear C before it sets it from bit 0 of the old value
instruction_iSRE_keeps_carry(m, byte, instr, addr0) ==
    LET m1 == clear(clear(m, Flag_N), Flag_Z)
        addr == operand_address(m1, byte, addr0,
                    [zpx |-> \h57, absx |-> \h5F, indx |-> \h43, absy |-> {\h5B}, indy |-> \h53])
        old_data == read(m1, addr)
        m2 == write(m1, addr, old_data \div 2)
        new_data == read(m2, addr)
        m3 == set_if(m2, Bit(old_data, \h01), Flag_C)
        m4 == [m3 EXCEPT !.acc = BitXor(m.acc, new_data)]
        m5 == set_if(m4, m4.acc = 0, Flag_Z)
    IN  IF read_raises(addr) THEN Raise(m1, "IndexError")
        ELSE IF old_data = None THEN Raise(m1, "TypeError")
        ELSE Ret(set_if(m5, m4.acc >= \h80, Flag_N),
                 m.pc + instr.length, m.cycles + instr.cycles)

instruction_iSRE(m, byte, instr, addr0) ==
    LET m1 == clear(clear(clear(m, Flag_N), Flag_Z), Flag_C)
        addr == operand_address(m1, byte, addr0,
                    [zpx |-> \h57, absx |-> \h5F, indx |-> \h43, absy |-> {\h5B}, indy |-> \h53])
        old_data == read(m1, addr)
        m2 == write(m1, addr, old_data \div 2)
        new_data == read(m2, addr)
        m3 == set_if(m2, Bit(old_data, \h01), Flag_C)
        m4 == [m3 EXCEPT !.acc = BitXor(m.acc, new_data)]
        m5 == set_if(m4, m4.acc = 0, Flag_Z)
    IN  IF read_raises(addr) THEN Raise(m1, "IndexError")
        ELSE IF old_data = None THEN Raise(m1, "TypeError")
        ELSE Ret(set_if(m5, m4.acc >= \h80, Flag_N),
                 m.pc + instr.length, m.cycles + instr.cycles)

handler(m, byte, instr, data) ==
    CASE instr.mnemonic = "ADC" -> instruction_ADC(m, byte, instr, data)
      [] instr.mnemonic = "SBC" -> instruction_SBC(m, byte, instr, data)
      [] instr.mnemonic = "iSBC" -> instruction_iSBC(m, byte, instr, data)
      [] instr.mnemonic = "BCC" -> instruction_BCC(m, byte, instr, data)
      [] instr.mnemonic = "BCS" -> instruction_BCS(m, byte, instr, data)
      [] instr.mnemonic = "BEQ" -> instruction_BEQ(m, byte, instr, data)
      [] instr.mnemonic = "BMI" -> instruction_BMI(m, byte, instr, data)
      [] instr.mnemonic = "BNE" -> instruction_BNE(m, byte, instr, data)
      [] instr.mnemonic = "BPL" -> instruction_BPL(m, byte, instr, data)
      [] instr.mnemonic = "BVC" -> instruction_BVC(m, byte, instr, data)
      [] instr.mnemonic = "BVS" -> instruction_BVS(m, byte, instr, data)
      [] instr.mnemonic = "CLC" -> instruction_CLC(m, byte, instr, data)
      [] instr.mnemonic = "CLI" -> instruction_CLI(m, byte, instr, data)
      [] instr.mnemonic = "INC" -> instruction_INC(m, byte, instr, data)
      [] instr.mnemonic = "JMP" -> instruction_JMP(m, byte, instr, data)
      [] instr.mnemonic = "JSR" -> instruction_JSR(m, byte, instr, data)
      [] instr.mnemonic = "LDA" -> instruction_LDA(m, byte, instr, data)
      [] instr.mnemonic = "LDX" -> instruction_LDX(m, byte, instr, data)
      [] instr.mnemonic = "NOP" -> instruction_NOP(m, byte, instr, data)
      [] instr.mnemonic = "PHA" -> instruction_PHA(m, byte, instr, data)
      [] instr.mnemonic = "PHP" -> instruction_PHP(m, byte, instr, data)
      [] instr.mnemonic = "PLA" -> instruction_PLA(m, byte, instr, data)
      [] instr.mnemonic = "PLP" -> instruction_PLP(m, byte, instr, data)
      [] instr.mnemonic = "RTI" -> instruction_RTI(m, byte, instr, data)
      [] instr.mnemonic = "RTS" -> instruction_RTS(m, byte, instr, data)
      [] instr.mnemonic = "SEC" -> instruction_SEC(m, byte, instr, data)
      [] instr.mnemonic = "SEI" -> instruction_SEI(m, byte, instr, data)
      [] instr.mnemonic = "STA" -> instruction_STA(m, byte, instr, data)
      [] instr.mnemonic = "TSX" -> instruction_TSX(m, byte, instr, data)
      [] instr.mnemonic = "TXS" -> instruction_TXS(m, byte, instr, data)
      [] instr.mnemonic = "AND" -> instruction_AND(m, byte, instr, data)
      [] instr.mnemonic = "ASL" -> instruction_ASL(m, byte, instr, data)
      [] instr.mnemonic = "CMP" -> instruction_CMP(m, byte, instr, data)
      [] instr.mnemonic = "DEC" -> instruction_DEC(m, byte, instr, data)
      [] instr.mnemonic = "EOR" -> instruction_EOR(m, byte, instr, data)
      [] instr.mnemonic = "LDY" -> instruction_LDY(m, byte, instr, data)
      [] instr.mnemonic = "LSR" -> instruction_LSR(m, byte, instr, data)
      [] instr.mnemonic = "ORA" -> instruction_ORA(m, byte, instr, data)
      [] instr.mnemonic = "ROL" -> instruction_ROL(m, byte, instr, data)
      [] instr.mnemonic = "ROR" -> instruction_ROR(m, byte, instr, data)
      [] instr.mnemonic = "STX" -> instruction_STX(m, byte, instr, data)
      [] instr.mnemonic = "STY" -> instruction_STY(m, byte, instr, data)
      [] instr.mnemonic = "iDCP" -> instruction_iDCP(m, byte, instr, data)
      [] instr.mnemonic = "iISC" -> instruction_iISC(m, byte, instr, data)
      [] instr.mnemonic = "iLAX" -> instruction_iLAX(m, byte, instr, data)
      [] instr.mnemonic = "iNOP" -> instruction_iNOP(m, byte, instr, data)
      [] instr.mnemonic = "iRLA" -> instruction_iRLA(m, byte, instr, data)
      [] instr.mnemonic = "iRRA" -> instruction_iRRA(m, byte, instr, data)
      [] instr.mnemonic = "iSAX" -> instruction_iSAX(m, byte, instr, data)
      [] instr.mnemonic = "iSLO" -> instruction_iSLO(m, byte, instr, data)
      [] instr.mnemonic = "iSRE" -> instruction_iSRE(m, byte, instr, data)

\* Mnemonics of the table that have no instruction_ method
NotImplemented == {"iJAM", "iANC", "iALR", "iARR", "iSBX", "iLAS"}

\* instruction_not_implemented stepping over the instruction as a NOP would
instruction_not_implemented_skip(m, byte, instr) ==
    Ret(m, m.pc + instr.length, m.cycles + instr.cycles)

\* CPU.instruction_not_implemented, the default of the getattr in CPU.run
instruction_not_implemented(m, byte, instr) == Raise(m, "NotImplemented")

NoNmi == [taken |-> FALSE, pc |-> 0, sp |-> 0, flag |-> {}, cycles |-> 0]

\* CPU.run
run(m) ==
    LET m0 == [m EXCEPT !.nmi = NoNmi]
        cur_byte == read(m0, m0.pc)
    IN  IF read_raises(m0.pc) THEN Raise(m0, "IndexError")
        ELSE IF cur_byte \notin OpcodeKeys THEN Raise(m0, "RecursionError")
        ELSE
          LET instr == opcodes[cur_byte]
              operands == (m0.pc + 1) .. (m0.pc + instr.length - 1)
              instr_bytes == [i \in 1 .. (instr.length - 1) |-> read(m0, m0.pc + i)]
              data == from_bytes(instr_bytes)
          IN  IF \E a \in operands : read_raises(a) THEN Raise(m0, "IndexError")
              ELSE IF \E a \in operands : read(m0, a) = None THEN Raise(m0, "TypeError")
              ELSE IF instr.mnemonic = "BRK" THEN Raise(m0, "die")
              ELSE IF instr.mnemonic \in NotImplemented
                   THEN instruction_not_implemented(m0, cur_byte, instr)
              ELSE LET m1 == handler(m0, cur_byte, instr, data)
                   IN  catch_up(m1, m1.cycles - m0.cycles)

---------------------------------------------------------------------------
(* The machine as a record of the variables, and back *)

Machine ==
    [mem |-> mem, pc |-> pc, sp |-> sp, acc |-> acc, x |-> x, y |-> y,
     cycles |-> cycles, flag |-> enabled_flags, class_flag |-> class_flags,
     own |-> own_flags, control |-> control,
     mask |-> mask, status |-> status, ppu_cycles |-> ppu_cycles,
     err |-> err, nmi |-> nmi]

Commit(m) ==
    /\ mem' = m.mem
    /\ pc' = m.pc
    /\ sp' = m.sp
    /\ acc' = m.acc
    /\ x' = m.x
    /\ y' = m.y
    /\ cycles' = m.cycles
    /\ enabled_flags' = m.flag
    /\ class_flags' = m.class_flag
    /\ own_flags' = m.own
    /\ control' = m.control
    /\ mask' = m.mask
    /\ status' = m.status
    /\ ppu_cycles' = m.ppu_cycles
    /\ err' = m.err
    /\ nmi' = m.nmi
    /\ UNCHANGED <<is_mirror, budget>>

\* The state an operation started from
Before(op, byte, addr, data) ==
    [op |-> op, byte |-> byte, addr |-> addr, data |-> data,
     mem |-> mem, pc |-> pc, sp |-> sp, acc |-> acc, x |-> x, y |-> y,
     cycles |-> cycles, flag |-> enabled_flags, status |-> status,
     control |-> control, mask |-> mask, ppu_cycles |-> ppu_cycles]

---------------------------------------------------------------------------
(* main.py: the image handed to Memory, then CPU(mem) *)

RECURSIVE Flatten(_)
Flatten(ss) == IF ss = <<>> THEN <<>> ELSE Head(ss) \o Flatten(Tail(ss))

\* raw_mem[0x8000:] = PRG, with the reset vector at the start of PRG and the
\* NMI vector at 0x9012
Image(prg) ==
    LET cells == {\h8000 + i - 1 : i \in {j \in 1 .. Len(prg) : prg[j] # 0}}
                 \cup {\hFFFA, \hFFFB, \hFFFD}
    IN  [a \in cells |->
            IF a = \hFFFA THEN \h12
            ELSE IF a = \hFFFB THEN \h90
            ELSE IF a = \hFFFD THEN \h80
            ELSE prg[a - \h8000 + 1]]

\* Nothing has been done yet
NoHist(image) ==
    [op |-> "init", byte |-> 0, addr |-> 0, data |-> 0,
     mem |-> image, pc |-> 0, sp |-> 0, acc |-> 0, x |-> 0, y |-> 0,
     cycles |-> 0, flag |-> {}, status |-> 0, control |-> 0, mask |-> 0,
     ppu_cycles |-> 0]

\* CPU.__init__ on Memory(image, mirror)
Construct(image, mirror, limit) ==
    /\ mem = image
    /\ budget = limit
    /\ is_mirror = mirror
    /\ sp = \hFD
    /\ acc = 0
    /\ x = 0
    /\ y = 0
    /\ cycles = 0
    /\ enabled_flags = INIT_FLAGS
    /\ class_flags = INIT_FLAGS
    /\ own_flags = FALSE
    /\ control = 0
    /\ mask = 0
    /\ status = 0
    /\ ppu_cycles = 0
    /\ err = ""
    /\ nmi = NoNmi
    /\ pc = reset_vector([mem |-> image, status |-> 0])
    /\ hist = NoHist(image)
    /\ prev = NoHist(image)

\* The instructions the programs of Spec are made of
Menu == {
    <<\hA9, \hFF>>,         \* LDA #$FF
    <<\hAD, \h0A, \h20>>,   \* LDA $200A
    <<\h8D, \h00, \h80>>,   \* STA $8000
    <<\hFE, \h00, \h00>>,   \* INC $0000,X
    <<\h9A>>,               \* TXS
    <<\hBA>>,               \* TSX
    <<\h48>>,               \* PHA
    <<\h60>>,               \* RTS
    <<\h00>>                \* BRK
}

Init == \E prog \in [1 .. ProgLen -> Menu] : Construct(Image(Flatten(prog)), FALSE, MaxCycles)

\* The mnemonic the table has for the byte at addr; "unassigned" for a byte
\* that is not a key of the table
mnemonic_at(addr) ==
    IF read(Machine, addr) \in OpcodeKeys THEN opcodes[read(Machine, addr)].mnemonic
    ELSE "unassigned"

\* CPU.run, called by main.py's loop while nothing has been raised, on an
\* instruction with mnemonic mn
Run(mn) ==
    /\ err = ""
    /\ cycles < budget
    /\ ~read_raises(pc)
    /\ mnemonic_at(pc) = mn
    /\ Commit(run(Machine))
    /\ hist' = Before("run", read(Machine, pc), pc, 0)
    /\ prev' = hist

Next == Run("BRK") \/ Run("INC") \/ Run("LDA") \/ Run("PHA") \/ Run("RTS") \/ Run("STA") \/ Run("TSX") \/ Run("TXS")

Spec == Init /\ [][Next]_vars

---------------------------------------------------------------------------
(* Programs that run into the first vertical blank: write PPUCTRL, clear   *)
(* or set I, then count up a RAM cell in a loop.                           *)

FramePrograms ==
    { <<\hA9, v, \h8D, \h00, \h20, f>> \o
      <<\hFE, \h00, \h02,  \* 8006: INC $0200,X
      \hFE, \h00, \h02,
      \hFE, \h00, \h02,
      \hFE, \h00, \h02,
      \hFE, \h00, \h02,
      \hFE, \h00, \h02,
      \hFE, \h00, \h02,
      \hFE, \h00, \h02,
      \hFE, \h00, \h02,
      \h4C, \h06, \h80>> :   \*       JMP $8006
        v \in {\h80, \h00}, f \in {\h58, \h78} }

InitFrame == \E prg \in FramePrograms : Construct(Image(prg), FALSE, MaxFrameCycles)

NextFrame == Run("LDA") \/ Run("STA") \/ Run("CLI") \/ Run("SEI") \/ Run("INC") \/ Run("JMP")

SpecFrame == InitFrame /\ [][NextFrame]_vars

---------------------------------------------------------------------------
(* The bus on its own: Memory.read and Memory.write called on addresses of *)
(* every region, all four mirrors of two RAM cells among them.             *)

BusAddrs ==
    {\h0000, \h0800, \h1000, \h1800, \h07FF, \h0FFF, \h17FF, \h1FFF,
     \h2000, \h2002, \h2008, \h200A, \h3FFA, \h4014, \h8000, \hFFFF}

BusWrite(a, v) ==
    /\ err = ""
    /\ Commit(write(Machine, a, v))
    /\ hist' = Before("write", 0, a, v)
    /\ UNCHANGED prev

\* data of the record is what the read returned
BusRead(a) ==
    /\ err = ""
    /\ Commit(IF read_raises(a) THEN Raise(Machine, "IndexError") ELSE Machine)
    /\ hist' = Before("read", 0, a, IF read_raises(a) THEN None ELSE read(Machine, a))
    /\ UNCHANGED prev

InitBus == \E mirror \in BOOLEAN : Construct(Image(<<\hA9, \hFF>>), mirror, 0)

NextBus ==
    \/ \E a \in BusAddrs, v \in {\h00, \h7F, \h1FF} : BusWrite(a, v)
    \/ \E a \in BusAddrs : BusRead(a)

SpecBus == InitBus /\ [][NextBus]_vars

---------------------------------------------------------------------------
(* Programs that work on the stack: X and SP are loaded with a stack       *)
(* pointer, A with a byte, then come StackLen stack and flag instructions. *)

\* Number of instructions that follow the preamble.
StackLen == 3

StackMenu == {
    <<\h58>>,               \* CLI
    <<\h38>>,               \* SEC
    <<\h08>>,               \* PHP
    <<\h28>>,               \* PLP
    <<\h48>>,               \* PHA
    <<\h68>>,               \* PLA
    <<\h20, \h00, \h90>>,   \* JSR $9000
    <<\h60>>,               \* RTS
    <<\h40>>                \* RTI
}

\* LDX #s / TXS / LDA #a
Preamble(s, a) == <<\hA2, s, \h9A, \hA9, a>>

\* The image of prg with a subroutine that is a single RTS at 0x9000
ImageSub(prg) ==
    [a \in DOMAIN Image(prg) \cup {\h9000} |->
        IF a = \h9000 THEN \h60 ELSE Image(prg)[a]]

InitStack ==
    \E s \in {\h00, \h01, \hFD, \hFE, \hFF}, a \in {\h00, \hCB}, body \in [1 .. StackLen -> StackMenu] :
        Construct(ImageSub(Preamble(s, a) \o Flatten(body)), FALSE, MaxCycles)

NextStack ==
    \/ Run("LDX") \/ Run("TXS") \/ Run("LDA") \/ Run("CLI") \/ Run("SEC")
    \/ Run("PHP") \/ Run("PLP") \/ Run("PHA") \/ Run("PLA")
    \/ Run("JSR") \/ Run("RTS") \/ Run("RTI") \/ Run("BRK")

SpecStack == InitStack /\ [][NextStack]_vars

---------------------------------------------------------------------------
(* PHA / PLA at every stack pointer with every accumulator:                *)
(* LDX #s / TXS / LDA #a / PHA / PLA for all bytes s and a.                *)

InitPushPull ==
    \E s \in 0 .. 255, a \in 0 .. 255 :
        Construct(Image(Preamble(s, a) \o <<\h48, \h68>>), FALSE, MaxCycles)

NextPushPull == Run("LDX") \/ Run("TXS") \/ Run("LDA") \/ Run("PHA") \/ Run("PLA") \/ Run("BRK")

SpecPushPull == InitPushPull /\ [][NextPushPull]_vars

---------------------------------------------------------------------------
(* Programs that end in a byte CPU.run cannot execute: one that is not a   *)
(* key of the opcode table, or one whose mnemonic has no handler.          *)

Unimplemented == {b \in OpcodeKeys : opcodes[b].mnemonic \in NotImplemented}

DecodePreambles == {
    <<>>,
    <<\hA9, \hFF>>,             \* LDA #$FF
    <<\hA9, \hFF, \h48>>,       \* LDA #$FF / PHA
    <<\hA2, \h00, \h9A, \h48>>  \* LDX #$00 / TXS / PHA
}

InitDecode ==
    \E pre \in DecodePreambles, b \in ((0 .. 255) \ OpcodeKeys) \cup Unimplemented, o \in {\h00, \hFF} :
        Construct(Image(pre \o <<b, o, o>>), FALSE, MaxCycles)

NextDecode ==
    \/ Run("LDA") \/ Run("LDX") \/ Run("TXS") \/ Run("PHA")
    \/ Run("unassigned")
    \/ Run("iJAM") \/ Run("iANC") \/ Run("iALR") \/ Run("iARR") \/ Run("iSBX") \/ Run("iLAS")

SpecDecode == InitDecode /\ [][NextDecode]_vars

\* The last CPU.run left every register, the flags, the cycle counter, the
\* memory and the PPU as they were
Untouched ==
    /\ pc = hist.pc /\ sp = hist.sp
    /\ acc = hist.acc /\ x = hist.x /\ y = hist.y
    /\ enabled_flags = hist.flag
    /\ cycles = hist.cycles
    /\ mem = hist.mem
    /\ control = hist.control /\ mask = hist.mask /\ status = hist.status
    /\ ppu_cycles = hist.ppu_cycles

---------------------------------------------------------------------------
(* Programs that end in a branch: the flags are loaded through the stack,  *)
(* then a JMP reaches the branch, which lies in PRG ROM or, written there  *)
(* by the program, at 0x01FE in RAM.  The host stops after the branch.     *)

\* Cycle counts at which the host stops: the branch is the last instruction
\* started.
MaxBranchCycles == 13
MaxRamBranchCycles == 25

BranchOps == {\h10, \h30, \h50, \h70, \h90, \hB0, \hD0, \hF0}

\* LDA #p / PHA / PLP / JMP at, zeros up to at, then the branch b with offset o
RomBranch(p, at, b, o) ==
    LET head == <<\hA9, p, \h48, \h28, \h4C, at % 256, at \div 256>>
    IN  [i \in 1 .. (at - \h8000 + 2) |->
            IF i <= Len(head) THEN head[i]
            ELSE IF i = at - \h8000 + 1 THEN b
            ELSE IF i = at - \h8000 + 2 THEN o
            ELSE 0]

\* LDA #b / STA $01FE / LDA #o / STA $01FF / LDA #p / PHA / PLP / JMP $01FE
RamBranch(p, b, o) ==
    <<\hA9, b, \h8D, \hFE, \h01, \hA9, o, \h8D, \hFF, \h01,
      \hA9, p, \h48, \h28, \h4C, \hFE, \h01>>

InitBranch ==
    \/ \E p \in {\h00, \hC3}, at \in {\h80F0, \h80FD, \h80FE, \h817C}, b \in BranchOps, o \in 0 .. 255 :
           Construct(Image(RomBranch(p, at, b, o)), FALSE, MaxBranchCycles)
    \/ \E p \in {\h00, \hC3}, b \in BranchOps, o \in {\h00, \h02, \h80, \hFF} :
           Construct(Image(RamBranch(p, b, o)), FALSE, MaxRamBranchCycles)

NextBranch ==
    \/ Run("LDA") \/ Run("STA") \/ Run("PHA") \/ Run("PLP") \/ Run("JMP")
    \/ Run("BCC") \/ Run("BCS") \/ Run("BEQ") \/ Run("BMI") \/ Run("BNE") \/ Run("BPL") \/ Run("BVC") \/ Run("BVS")

SpecBranch == InitBranch /\ [][NextBranch]_vars

\* The flag test of the branch opcode b on the flags P
BranchCondition(b, P) ==
    \/ b = \h10 /\ Flag_N \notin P     \* BPL
    \/ b = \h30 /\ Flag_N \in P        \* BMI
    \/ b = \h50 /\ Flag_V \notin P     \* BVC
    \/ b = \h70 /\ Flag_V \in P        \* BVS
    \/ b = \h90 /\ Flag_C \notin P     \* BCC
    \/ b = \hB0 /\ Flag_C \in P        \* BCS
    \/ b = \hD0 /\ Flag_Z \notin P     \* BNE
    \/ b = \hF0 /\ Flag_Z \in P        \* BEQ

---------------------------------------------------------------------------
(* Arithmetic: LDA #a / ADC #v on every pair of bytes, with the carry as   *)
(* it is after construction (clear) or after SEC; the same for SBC #v, and *)
(* for iSBC #v on some values of A.                                        *)

\* The host stops once the arithmetic instruction has run: the budget without
\* the two cycles of a leading SEC.
MaxArithCycles == 3

\* The program that runs opcode op on A = a and operand v with carry c
ArithProgram(c, a, op, v) ==
    (IF c = 1 THEN <<\h38>> ELSE <<>>) \o <<\hA9, a, op, v>>

InitArith ==
    \E c \in {0, 1}, a \in 0 .. 255, v \in 0 .. 255 :
        Construct(Image(ArithProgram(c, a, \h69, v)), FALSE, MaxArithCycles + 2 * c)

NextArith == Run("SEC") \/ Run("LDA") \/ Run("ADC")

SpecArith == InitArith /\ [][NextArith]_vars

InitSubtract ==
    \/ \E c \in {0, 1}, a \in 0 .. 255, v \in 0 .. 255 :
           Construct(Image(ArithProgram(c, a, \hE9, v)), FALSE, MaxArithCycles + 2 * c)
    \/ \E c \in {0, 1}, v \in 0 .. 255,
          a \in {\h00, \h01, \h0F, \h10, \h50, \h7F, \h80, \h81, \hC3, \hF0, \hFE, \hFF} :
           Construct(Image(ArithProgram(c, a, \hEB, v)), FALSE, MaxArithCycles + 2 * c)

NextSubtract == Run("SEC") \/ Run("LDA") \/ Run("SBC") \/ Run("iSBC")

SpecSubtract == InitSubtract /\ [][NextSubtract]_vars

---------------------------------------------------------------------------
(* Zero page,X and zero page,Y: every opcode of those forms, on every      *)
(* operand, with a marked byte in the cell of page 0 and another one 256   *)
(* cells further.                                                          *)

\* The host stops once the indexed instruction has run.
MaxZeroPageCycles == 18

\* Opcodes whose handlers add X, or Y, to a one-byte operand
ZeroPageX == {\h15, \h16, \h35, \h36, \h55, \h56, \h75, \h76, \h94, \h95, \hB4,
              \hB5, \hD5, \hD6, \hF5, \hF6, \h17, \h37, \h57, \h77, \hD7, \hF7}
ZeroPageY == {\h96, \hB6, \h97, \hB7}
\* The two-byte, four-cycle iNOP entries
ZeroPageNop == {\h14, \h34, \h54, \h74, \hD4, \hF4}

\* Mark both cells, load the index register, the other register and A, then
\* run opcode op on operand o
ZeroPageProgram(op, o, i) ==
    LET t == (o + i) % \h100
    IN  <<\hA9, \h55, \h8D, t, \h01, \hA9, \h81, \h85, t,
          \hA2, IF op \in ZeroPageY THEN \h33 ELSE i,
          \hA0, IF op \in ZeroPageY THEN i ELSE \h33,
          \hA9, \hC3, op, o>>

InitZeroPage ==
    \E op \in ZeroPageX \cup ZeroPageY \cup ZeroPageNop, o \in 0 .. 255,
       i \in {\h01, \h80, \hFF} :
        Construct(Image(ZeroPageProgram(op, o, i)), FALSE, MaxZeroPageCycles)

NextZeroPage ==
    \/ Run("LDA")
    \/ Run("STA")
    \/ Run("LDX")
    \/ Run("LDY")
    \/ Run("ADC")
    \/ Run("SBC")
    \/ Run("AND")
    \/ Run("ORA")
    \/ Run("EOR")
    \/ Run("CMP")
    \/ Run("ASL")
    \/ Run("LSR")
    \/ Run("ROL")
    \/ Run("ROR")
    \/ Run("INC")
    \/ Run("DEC")
    \/ Run("STX")
    \/ Run("STY")
    \/ Run("iSAX")
    \/ Run("iLAX")
    \/ Run("iSLO")
    \/ Run("iRLA")
    \/ Run("iSRE")
    \/ Run("iRRA")
    \/ Run("iDCP")
    \/ Run("iISC")
    \/ Run("iNOP")

SpecZeroPage == InitZeroPage /\ [][NextZeroPage]_vars

---------------------------------------------------------------------------
(* Absolute,X, absolute,Y and (indirect),Y: every opcode of those forms    *)
(* that has a handler, on bases next to the ends of a page and of memory.  *)

\* The host stops once the indexed instruction has run.
MaxIndexCycles == 15

AbsoluteX == {\h1C, \h1D, \h1E, \h1F, \h3C, \h3D, \h3E, \h3F, \h5C, \h5D, \h5E,
              \h5F, \h7C, \h7D, \h7E, \h7F, \h9D, \hBC, \hBD, \hDC, \hDD, \hDE,
              \hDF, \hFC, \hFD, \hFE, \hFF}
AbsoluteY == {\h19, \h1B, \h39, \h3B, \h59, \h5B, \h79, \h7B, \h99, \hB9, \hBE,
              \hBF, \hD9, \hDB, \hF9, \hFB}
IndirectY == {\h11, \h13, \h31, \h33, \h51, \h53, \h71, \h73, \h91, \hB1, \hB3,
              \hD1, \hD3, \hF1, \hF3}

\* Store base at 0x10 and 0x11, load the index register and the other
\* register, then run opcode op on base or, for (indirect),Y, on 0x10
IndexProgram(op, base, i) ==
    <<\hA9, base % \h100, \h85, \h10, \hA9, base \div \h100, \h85, \h11,
      \hA2, IF op \in AbsoluteX THEN i ELSE \h33,
      \hA0, IF op \in AbsoluteX THEN \h33 ELSE i, op>>
    \o (IF op \in IndirectY THEN <<\h10>> ELSE <<base % \h100, base \div \h100>>)

InitIndex ==
    \E op \in AbsoluteX \cup AbsoluteY \cup IndirectY,
       base \in {\h0010, \h00FF, \h01FE, \h0480, \h4080, \h80F5, \hFFFF},
       i \in {\h00, \h01, \h0B, \hFF} :
        Construct(Image(IndexProgram(op, base, i)), FALSE, MaxIndexCycles)

NextIndex ==
    \/ Run("LDA")
    \/ Run("STA")
    \/ Run("LDX")
    \/ Run("LDY")
    \/ Run("ADC")
    \/ Run("SBC")
    \/ Run("AND")
    \/ Run("ORA")
    \/ Run("EOR")
    \/ Run("CMP")
    \/ Run("ASL")
    \/ Run("LSR")
    \/ Run("ROL")
    \/ Run("ROR")
    \/ Run("INC")
    \/ Run("DEC")
    \/ Run("iLAX")
    \/ Run("iSLO")
    \/ Run("iRLA")
    \/ Run("iSRE")
    \/ Run("iRRA")
    \/ Run("iDCP")
    \/ Run("iISC")
    \/ Run("iNOP")

SpecIndex == InitIndex /\ [][NextIndex]_vars

---------------------------------------------------------------------------
(* JMP (p), with the pointer's bytes in RAM at 0x00FF, 0x0000 and 0x0100   *)

\* The host stops once the jump has run.
MaxJmpCycles == 17

InitJmp ==
    \E p \in {\h0010, \h00FF, \h07FF, \h10FF, \h18FF, \h2000, \h2002, \h3FFF, \h8003},
       l \in {\h00, \h34, \hFF}, h \in {\h02, \h90, \hC0} :
        Construct(Image(<<\hA9, l, \h85, \hFF, \hA9, h, \h85, \h00,
                          \hA9, \h80, \h8D, \h00, \h01,
                          \h6C, p % \h100, p \div \h100>>), FALSE, MaxJmpCycles)

NextJmp == Run("LDA") \/ Run("STA") \/ Run("JMP")

SpecJmp == InitJmp /\ [][NextJmp]_vars

---------------------------------------------------------------------------
(* class Flag on its own: set, clear, toggle and set_byte called on the    *)
(* CPU's Flag, and CPU(mem) called again on the same Memory.               *)

InitFlag == Construct(Image(<<\h38>>), FALSE, 0)

NextFlag ==
    \/ \E bit \in VALUES :
           Commit(set(Machine, bit)) /\ hist' = [NoHist(mem) EXCEPT !.op = "flag"]
                                     /\ UNCHANGED prev
    \/ \E bit \in VALUES :
           Commit(clear(Machine, bit)) /\ hist' = [NoHist(mem) EXCEPT !.op = "flag"]
                                       /\ UNCHANGED prev
    \/ \E bit \in VALUES :
           Commit(toggle(Machine, bit)) /\ hist' = [NoHist(mem) EXCEPT !.op = "flag"]
                                        /\ UNCHANGED prev
    \/ \E byte \in {\h00, \h10, \hCB, \hFF} :
           Commit(set_byte(Machine, byte)) /\ hist' = [NoHist(mem) EXCEPT !.op = "flag"]
                                           /\ UNCHANGED prev
    \* CPU.__init__ called again on the same Memory: the new CPU has the
    \* attributes of the class, a new Flag and a new PPU
    \/ /\ err = ""
       /\ Commit([Machine EXCEPT !.pc = reset_vector(Machine), !.sp = \hFD, !.acc = 0,
                                 !.x = 0, !.y = 0, !.cycles = 0,
                                 !.flag = class_flags, !.own = FALSE,
                                 !.control = 0, !.mask = 0, !.status = 0,
                                 !.ppu_cycles = 0, !.nmi = NoNmi])
       /\ hist' = [NoHist(mem) EXCEPT !.op = "construct"]
       /\ UNCHANGED prev

SpecFlag == InitFlag /\ [][NextFlag]_vars

---------------------------------------------------------------------------
(* The combined instructions on a zero-page operand:                       *)
(* LDA #v / STA $10 / LDA #p / PHA / LDA #a / PLP / op $10, so that the    *)
(* cell holds v, A holds a and the flags are those of p.                   *)

\* The host stops once the combined instruction has run.
MaxCombinedCycles == 20

InitCombined ==
    \E op \in {\h07, \h27, \h47, \h67, \hC7, \hE7}, v \in 0 .. 255,
       p \in {\h00, \h01, \hC2, \hC3} :
        \E a \in {\h00, \h80, \hFF, (v + 1) % \h100, (v + \hFF) % \h100} :
            Construct(Image(<<\hA9, v, \h85, \h10, \hA9, p, \h48, \hA9, a, \h28, op, \h10>>),
                      FALSE, MaxCombinedCycles)

NextCombined ==
    \/ Run("LDA") \/ Run("STA") \/ Run("PHA") \/ Run("PLP")
    \/ Run("iSLO") \/ Run("iRLA") \/ Run("iSRE") \/ Run("iRRA") \/ Run("iDCP") \/ Run("iISC")

SpecCombined == InitCombined /\ [][NextCombined]_vars

---------------------------------------------------------------------------
(* class PPU on its own: PPU.run called once at a time, as the loop at the *)
(* end of CPU.run calls it, with PPUCTRL written at any moment.            *)

\* PPU.run is not called once PPU.cycles has reached this value: one frame
\* and the first steps of the next.
MaxPpuCycles == 89350

InitPpu == Construct(Image(<<\hEA>>), FALSE, 0)

NextPpu ==
    \/ /\ err = ""
       /\ ppu_cycles < MaxPpuCycles
       /\ Commit(ppu_run(Machine))
       /\ hist' = Before("ppu", 0, 0, 0)
       /\ UNCHANGED prev
    \/ \E v \in {\h00, \h80} :
           /\ err = ""
           /\ control # v
           /\ Commit(write(Machine, \h2000, v))
           /\ UNCHANGED <<hist, prev>>

SpecPpu == InitPpu /\ [][NextPpu]_vars

---------------------------------------------------------------------------
(* A host that keeps calling CPU.run after handle_nmi has raised, on a     *)
(* program that writes v to PPUCTRL and then polls PPUSTATUS:              *)
(*   8000: LDA #v      8002: STA $2000                                     *)
(*   8005: LDA $2002   8008: BPL $8005    (until bit 7 is read set)        *)
(*   800A: LDA $2002   800D: BMI $800A    (until bit 7 is read clear)      *)
(*   800F: JMP $8005                                                       *)
(* with an RTI at the NMI vector 0x9012.                                   *)

\* The host stops calling CPU.run at this many cycles: four frames and a
\* part of the fifth.
MaxHostCycles == 400000

\* try: cpu.run() / except the Exception("") of handle_nmi: continue.
\* The record of the run says whether it followed a delivery of NMI, and
\* keeps in data the cycle count at which an LDA last loaded a value whose
\* bit 7 was not that of A before it.
Host(mn) ==
    /\ err \in {"", "nmi"}
    /\ cycles < budget
    /\ ~read_raises(pc)
    /\ mnemonic_at(pc) = mn
    /\ \E m \in {run([Machine EXCEPT !.err = ""])} :
           /\ Commit(m)
           /\ hist' = Before(IF err = "nmi" THEN "resume" ELSE "run", read(Machine, pc), pc,
                             IF mn = "LDA" /\ Bit(m.acc, \h80) # Bit(acc, \h80)
                             THEN cycles ELSE hist.data)
    /\ prev' = hist

InitHost ==
    \E v \in {\h00, \h80} :
        LET image == Image(<<\hA9, v, \h8D, \h00, \h20,
                             \hAD, \h02, \h20, \h10, \hFB,
                             \hAD, \h02, \h20, \h30, \hFB,
                             \h4C, \h05, \h80>>)
        IN  Construct([a \in DOMAIN image \cup {\h9012} |->
                          IF a = \h9012 THEN \h40 ELSE image[a]], FALSE, MaxHostCycles)

NextHost ==
    \/ Host("LDA") \/ Host("STA") \/ Host("BPL") \/ Host("BMI") \/ Host("JMP")
    \/ Host("RTI")

SpecHost == InitHost /\ [][NextHost]_vars

---------------------------------------------------------------------------
(* Properties *)

\* C1: at every instruction fetch the PPU cycle counter equals three times
\* the CPU cycle counter (every CPU cycle is followed by three PPU steps).
C1_PpuThreeTimesCpu == err = "" => ppu_cycles = 3 * cycles

\* C2: when PPU.run signals NMI the request is only latched: the run in which
\* it happens does not end in an error and makes every PPU step the
\* instruction is due.
C2_NmiOnlyLatched ==
    nmi.taken =>
        /\ err = ""
        /\ ppu_cycles - hist.ppu_cycles >= nmi.cycles - hist.cycles

\* C3: NMI entry taken at next-instruction address PC with flags P pushes
\* PC>>8, PC&0xFF and P with B clear, leaves I set, loads PC from
\* 0xFFFA/0xFFFB and adds 7 cycles.
C3_NmiEntry ==
    nmi.taken =>
        /\ Cell(mem, \h100 + nmi.sp) = nmi.pc \div 256
        /\ Cell(mem, \h100 + nmi.sp - 1) = nmi.pc % 256
        /\ Cell(mem, \h100 + nmi.sp - 2) = get_byte(nmi.flag \ {Flag_B})
        /\ Flag_I \in enabled_flags
        /\ pc = Cell(mem, \hFFFA) + Cell(mem, \hFFFB) * 256
        /\ cycles = nmi.cycles + 7

\* C4: a step on BRK at address PC completes without error, pushes
\* (PC+2)>>8, (PC+2)&0xFF and P|0x10, sets I and loads PC from 0xFFFE/0xFFFF.
C4_BrkEntersIrq ==
    (hist.op = "run" /\ hist.byte = \h00) =>
        /\ err = ""
        /\ Cell(mem, \h100 + hist.sp) = (hist.pc + 2) \div 256
        /\ Cell(mem, \h100 + hist.sp - 1) = (hist.pc + 2) % 256
        /\ Cell(mem, \h100 + hist.sp - 2) = get_byte(hist.flag \cup {Flag_B})
        /\ Flag_I \in enabled_flags
        /\ pc = Cell(mem, \hFFFE) + Cell(mem, \hFFFF) * 256

\* C5: the stack pointer is an integer in [0, 255] in every reachable state.
C5_SpIsByte == sp \in 0 .. 255

\* C6: the program counter is in [0, 0xFFFF] in every reachable state.
C6_PcIs16Bit == pc \in 0 .. \hFFFF

\* C7: the registers A, X and Y are integers in [0, 255] in every reachable
\* state.
C7_RegistersAreBytes == acc \in 0 .. 255 /\ x \in 0 .. 255 /\ y \in 0 .. 255

\* C8: no operation changes a byte at 0x8000-0xFFFF: after every step each
\* ROM cell holds what it held before the step.
C8_RomNeverChanges ==
    \A a \in DOMAIN mem \cup DOMAIN hist.mem :
        a >= \h8000 => Cell(mem, a) = Cell(hist.mem, a)

\* C9: after any sequence of bus writes every address in [0, 0x1FFF] reads
\* as its image modulo 0x0800, and a value written to one mirror of a RAM
\* cell is read back modulo 256 at all four.
C9_RamMirrors ==
    /\ \A a \in 0 .. \h1FFF : read(Machine, a) = read(Machine, a % \h0800)
    /\ (hist.op = "write" /\ hist.addr \in 0 .. \h1FFF) =>
           \A k \in 0 .. 3 :
               read(Machine, (hist.addr % \h0800) + k * \h0800) = hist.data % 256

\* C9 witness: 0x1FF was written to the mirror 0x1800 and reads as 0xFF at 0x0000
C9_Witness ==
    /\ hist.op = "write" /\ hist.addr = \h1800 /\ hist.data = \h1FF
    /\ read(Machine, \h0000) = \hFF

\* C10: a read of an address in [0x2000, 0x3FFF] returns what a read of
\* 0x2000 + (a - 0x2000) mod 8 returns in the same PPU state; every mirror
\* of 0x2002 returns PPUSTATUS.
C10_PpuRegisterMirrors ==
    (hist.op = "read" /\ hist.addr \in \h2000 .. \h3FFF) =>
        /\ hist.data = read(Machine, \h2000 + ((hist.addr - \h2000) % 8))
        /\ ((hist.addr - \h2000) % 8 = 2) => hist.data = status

\* C11: a bus write of v to an address a in [0x2000, 0x3FFF] reaches the PPU
\* under the mirrored register address: PPUCTRL becomes v when
\* (a - 0x2000) mod 8 = 0 and PPUMASK becomes v when it is 1.
C11_PpuWriteMirrors ==
    (hist.op = "write" /\ hist.addr \in \h2000 .. \h3FFF) =>
        /\ ((hist.addr - \h2000) % 8 = 0) => control = hist.data
        /\ ((hist.addr - \h2000) % 8 = 1) => mask = hist.data

\* C12: Memory.read returns an integer in [0, 255] for every address in
\* [0, 0xFFFF], the PPU register addresses among them.
C12_ReadReturnsByte ==
    (hist.op = "read" /\ hist.addr \in 0 .. \hFFFF) => hist.data \in 0 .. 255

\* C13: immediately after CPU(mem), PC is read(0xFFFC) | read(0xFFFD) << 8,
\* SP is 0xFD, A, X, Y and the cycle counter are 0 and P is 0x24.
C13_StateAfterConstruction ==
    hist.op = "init" =>
        /\ pc = read(Machine, \hFFFC) + read(Machine, \hFFFD) * 256
        /\ sp = \hFD
        /\ acc = 0 /\ x = 0 /\ y = 0
        /\ cycles = 0
        /\ get_byte(enabled_flags) = \h24
        /\ enabled_flags = {Flag_I, Flag_U}

\* C13 witness: a CPU just constructed on an image whose reset vector is 0x8000
C13_Witness ==
    /\ hist.op = "init"
    /\ read(Machine, \hFFFC) = \h00 /\ read(Machine, \hFFFD) = \h80
    /\ pc = \h8000

\* C14: PHP followed by PLP leaves P exactly as it was before the PHP, for
\* every P the CPU can reach (I clear after CLI among them), and leaves SP
\* unchanged.
C14_PhpPlpRoundTrip ==
    (hist.op = "run" /\ hist.byte = \h28 /\ prev.op = "run" /\ prev.byte = \h08) =>
        /\ enabled_flags = prev.flag
        /\ sp = prev.sp

\* C15: for every A in [0, 255] and every SP in [0x00, 0xFF], PHA followed
\* at once by PLA completes without error and leaves A and SP as they were
\* before the PHA, with Z and N reflecting A.
C15_PhaPlaRoundTrip ==
    /\ (hist.op = "run" /\ hist.byte = \h48
            /\ hist.acc \in 0 .. 255 /\ hist.sp \in 0 .. 255) => err = ""
    /\ (hist.op = "run" /\ hist.byte = \h68 /\ prev.op = "run" /\ prev.byte = \h48
            /\ prev.acc \in 0 .. 255 /\ prev.sp \in 0 .. 255) =>
           /\ err = ""
           /\ acc = prev.acc
           /\ sp = prev.sp
           /\ (Flag_Z \in enabled_flags) = (prev.acc = 0)
           /\ (Flag_N \in enabled_flags) = (prev.acc >= \h80)

\* C15 witness: PHA at SP = 0 with A = 0x80, then PLA, which gives A = 0x80
\* and SP = 0 again
C15_Witness ==
    /\ hist.op = "run" /\ hist.byte = \h68
    /\ prev.op = "run" /\ prev.byte = \h48
    /\ prev.sp = 0 /\ prev.acc = \h80
    /\ hist.sp = -1
    /\ acc = \h80 /\ sp = 0 /\ err = ""

\* C16: JSR at address PC with target T pushes the high byte and then the
\* low byte of PC+2 at 0x0100+SP and 0x0100+SP-1, lowers SP by 2 and sets
\* PC to T; an RTS executed next sets PC to PC+3 and restores SP.
C16_JsrRts ==
    /\ (hist.op = "run" /\ hist.byte = \h20 /\ hist.sp \in 0 .. 255) =>
           /\ read(Machine, \h100 + hist.sp) = (hist.pc + 2) \div 256
           /\ read(Machine, \h100 + hist.sp - 1) = (hist.pc + 2) % 256
           /\ sp = hist.sp - 2
           /\ pc = Word(Cell(hist.mem, hist.pc + 1), Cell(hist.mem, hist.pc + 2))
    /\ (hist.op = "run" /\ hist.byte = \h60 /\ prev.op = "run" /\ prev.byte = \h20
            /\ prev.sp \in 0 .. 255) =>
           /\ pc = prev.pc + 3
           /\ sp = prev.sp

\* C17: a step on a byte that has no entry in the opcode table raises the
\* decode error of get_instruction_at and leaves PC, SP, A, X, Y, P, the
\* cycle counter, memory and the PPU state as they were.
C17_UnassignedOpcode ==
    (hist.op = "run" /\ hist.byte \notin OpcodeKeys) =>
        /\ err = "InvalidOpcode"
        /\ Untouched

\* C18: a step on an opcode of the table that has no handler (iJAM, iANC,
\* iALR, iARR, iSBX, iLAS) raises an error and leaves PC, SP, the registers,
\* the flags, the cycle counter, memory and the PPU as they were.
C18_UnimplementedOpcode ==
    (hist.op = "run" /\ hist.byte \in Unimplemented) =>
        /\ err # ""
        /\ Untouched

\* C18 witness: iJAM (0x02) met after LDA #$FF / PHA: the run raised and PC
\* still points at the opcode
C18_Witness ==
    /\ hist.op = "run" /\ hist.byte = \h02
    /\ err = "NotImplemented"
    /\ pc = \h8003 /\ cycles = 5 /\ sp = \hFC /\ acc = \hFF

\* C19: when a step raises a stack error (stack empty or stack full), SP,
\* PC, the flags, the registers and the stack page are as they were before
\* the step: no part of the instruction is observable.
C19_ErrorsAreAtomic ==
    (hist.op = "run" /\ hist.sp \in 0 .. 255 /\ err \in {"StackEmpty", "StackFull"}) =>
        /\ sp = hist.sp
        /\ pc = hist.pc
        /\ enabled_flags = hist.flag
        /\ acc = hist.acc /\ x = hist.x /\ y = hist.y
        /\ \A a \in \h100 .. \h1FF : Cell(mem, a) = Cell(hist.mem, a)

\* C20: in every state reached by executing instructions from reset the
\* reserved bit 0x20 of the flags byte is 1, also after PLP and RTI have
\* popped a byte whose bit 5 is 0.
C20_ReservedBitSet ==
    /\ Flag_U \in enabled_flags
    /\ Bit(get_byte(enabled_flags), \h20)

\* C20 witness: PLP has popped a byte whose bit 5 is 0 and the reserved flag
\* is set afterwards
C20_Witness ==
    /\ hist.op = "run" /\ hist.byte = \h28 /\ err = ""
    /\ ~Bit(Cell(hist.mem, \h100 + hist.sp + 1), \h20)
    /\ Bit(get_byte(enabled_flags), \h20)

\* C21: the cycle counter never decreases over steps and NMI entries, and a
\* step that completes without error increases it by at least the base
\* cycle count of the opcode it executed, hence by at least 2.
C21_CyclesMonotone ==
    /\ cycles >= hist.cycles
    /\ (hist.op = "run" /\ err = "") =>
           /\ cycles >= hist.cycles + opcodes[hist.byte].cycles
           /\ cycles >= hist.cycles + 2

\* C21 witness: a step during which the NMI was entered, with the 7 cycles of
\* the entry added on top of the instruction's
C21_Witness ==
    /\ hist.op = "run" /\ nmi.taken
    /\ nmi.cycles >= hist.cycles + opcodes[hist.byte].cycles
    /\ cycles = nmi.cycles + 7

\* C22: a branch opcode at address PC with operand byte o sets PC to
\* PC + 2 + s when its condition holds, s being o for o < 0x80 and o - 0x100
\* otherwise; when it does not hold PC becomes PC + 2 and exactly the 2 base
\* cycles are added.
C22_BranchTarget ==
    (hist.op = "run" /\ hist.byte \in BranchOps /\ err = "") =>
        LET o == Cell(hist.mem, hist.pc + 1)
            s == IF o < \h80 THEN o ELSE o - \h100
        IN  IF BranchCondition(hist.byte, hist.flag) THEN pc = hist.pc + 2 + s
            ELSE pc = hist.pc + 2 /\ cycles = hist.cycles + 2

\* C22 witness: BMI with N set and offset 0x80 went 126 bytes back
C22_Witness ==
    /\ hist.op = "run" /\ hist.byte = \h30 /\ err = ""
    /\ Flag_N \in hist.flag
    /\ Cell(hist.mem, hist.pc + 1) = \h80
    /\ pc = hist.pc - 126

\* C23: a taken branch at address PC adds exactly 3 cycles when the target
\* and PC + 2 have the same high byte and exactly 4 cycles when their high
\* bytes differ.
C23_BranchPageCross ==
    (hist.op = "run" /\ hist.byte \in BranchOps /\ err = ""
        /\ BranchCondition(hist.byte, hist.flag)) =>
        cycles - hist.cycles =
            IF pc \div 256 = (hist.pc + 2) \div 256 THEN 3 ELSE 4

\* C24: BEQ at 0x01FE with offset 0x02 and Z set adds 4 cycles.
C24_BeqAt01FE ==
    (hist.op = "run" /\ hist.byte = \hF0 /\ hist.pc = \h01FE
        /\ Cell(hist.mem, \h01FF) = \h02 /\ Flag_Z \in hist.flag /\ err = "") =>
        cycles = hist.cycles + 4

\* C26: for all A and M in [0, 255] and either carry C, ADC gives
\* A' = (A + M + C) mod 256, C' = 1 iff A + M + C >= 0x100, V' = 1 iff A and
\* M have the same bit 7 and A' has the other, N' = bit 7 of A' and Z' = 1
\* iff A' = 0.
C26_Adc ==
    (hist.op = "run" /\ hist.byte = \h69 /\ hist.acc \in 0 .. 255) =>
        LET A == hist.acc
            M == Cell(hist.mem, hist.pc + 1)
            C == IF Flag_C \in hist.flag THEN 1 ELSE 0
            R == (A + M + C) % 256
        IN  /\ err = ""
            /\ acc = R
            /\ (Flag_C \in enabled_flags) = (A + M + C >= \h100)
            /\ (Flag_V \in enabled_flags) =
                   (((A >= \h80) = (M >= \h80)) /\ ((R >= \h80) # (A >= \h80)))
            /\ (Flag_N \in enabled_flags) = (R >= \h80)
            /\ (Flag_Z \in enabled_flags) = (R = 0)

\* C26 witness: 0x50 + 0x50 with C = 0 gave 0xA0 with V and N set, Z and C
\* clear
C26_Witness ==
    /\ hist.op = "run" /\ hist.byte = \h69
    /\ hist.acc = \h50 /\ Cell(hist.mem, hist.pc + 1) = \h50
    /\ Flag_C \notin hist.flag
    /\ acc = \hA0
    /\ {Flag_V, Flag_N} \subseteq enabled_flags
    /\ enabled_flags \cap {Flag_Z, Flag_C} = {}

\* C27: for all A and M in [0, 255] and either carry C, SBC and iSBC (0xEB)
\* give the A, C, V, N and Z that ADC gives on the operand M xor 0xFF with
\* the same carry; C' = 1 iff A + (M xor 0xFF) + C >= 0x100.
C27_SbcIsAdcOfComplement ==
    (hist.op = "run" /\ hist.byte \in {\hE9, \hEB} /\ hist.acc \in 0 .. 255) =>
        LET M == Cell(hist.mem, hist.pc + 1)
            C == IF Flag_C \in hist.flag THEN 1 ELSE 0
            before == [Machine EXCEPT !.acc = hist.acc, !.flag = hist.flag, !.err = ""]
            adc == instruction_ADC(before, \h69, opcodes[\h69], BitXor(M, \hFF))
        IN  /\ err = ""
            /\ acc = adc.acc
            /\ \A f \in {Flag_C, Flag_V, Flag_N, Flag_Z} :
                   (f \in enabled_flags) = (f \in adc.flag)
            /\ (Flag_C \in enabled_flags) = (hist.acc + BitXor(M, \hFF) + C >= \h100)

\* C27 witness: SBC 0x50 - 0xF0 with C = 1 gave 0x60 with C and V clear
C27_Witness ==
    /\ hist.op = "run" /\ hist.byte = \hE9
    /\ hist.acc = \h50 /\ Cell(hist.mem, hist.pc + 1) = \hF0
    /\ Flag_C \in hist.flag
    /\ acc = \h60
    /\ enabled_flags \cap {Flag_C, Flag_V} = {}

\* C30: every zero page,X and zero page,Y opcode accesses the cell
\* (operand + index) & 0xFF: it raises nothing, changes no cell but that
\* one, and leaves memory, A, X, Y and the flags as the zero-page form of the
\* same instruction does on the operand (operand + index) & 0xFF; the iNOP
\* forms change neither memory, registers nor flags.
C30_ZeroPageIndexed ==
    (hist.op = "run" /\ hist.byte \in ZeroPageX \cup ZeroPageY \cup ZeroPageNop) =>
        LET o == Cell(hist.mem, hist.pc + 1)
            idx == IF hist.byte \in ZeroPageY THEN hist.y ELSE hist.x
            t == (o + idx) % \h100
            before == [Machine EXCEPT !.mem = hist.mem, !.pc = hist.pc, !.sp = hist.sp,
                                      !.acc = hist.acc, !.x = hist.x, !.y = hist.y,
                                      !.cycles = hist.cycles, !.flag = hist.flag,
                                      !.err = ""]
            zpform == hist.byte - \h10
            same == IF hist.byte \in ZeroPageNop THEN before
                    ELSE handler(before, zpform, opcodes[zpform], t)
        IN  /\ err = ""
            /\ \A a \in (DOMAIN mem) \cup (DOMAIN hist.mem) :
                   Cell(mem, a) # Cell(hist.mem, a) => a = t
            /\ mem = same.mem
            /\ acc = same.acc
            /\ x = same.x
            /\ y = same.y
            /\ enabled_flags = same.flag
            /\ sp = hist.sp

\* C30 witness: LDA $FF,X with X = 1 loaded the byte of cell 0x0000, not the
\* one of cell 0x0100
C30_Witness ==
    /\ hist.op = "run" /\ hist.byte = \hB5
    /\ Cell(hist.mem, hist.pc + 1) = \hFF /\ hist.x = \h01
    /\ Cell(hist.mem, \h0000) = \h81 /\ Cell(hist.mem, \h0100) = \h55
    /\ acc = \h81
    /\ err = ""

\* C25: every read instruction whose table entry has penalty field 1
\* (absolute,X, absolute,Y and (indirect),Y forms) adds its base cycles plus
\* one exactly when (base address & 0xFF) + index > 0xFF, and its base
\* cycles otherwise, wherever the instruction is.
C25_PageCrossPenalty ==
    (hist.op = "run" /\ hist.byte \in AbsoluteX \cup AbsoluteY \cup IndirectY
                     /\ opcodes[hist.byte].page = 1) =>
        LET operand == Cell(hist.mem, hist.pc + 1)
            base == IF hist.byte \in IndirectY
                    THEN Word(Cell(hist.mem, operand), Cell(hist.mem, (operand + 1) % \h100))
                    ELSE Word(operand, Cell(hist.mem, hist.pc + 2))
            index == IF hist.byte \in AbsoluteX THEN hist.x ELSE hist.y
        IN  cycles - hist.cycles =
                opcodes[hist.byte].cycles
                + (IF BitAnd(base, \hFF) + index > \hFF THEN 1 ELSE 0)

\* C25, the failing case reached: LDA $0010,X with X = 0 took 5 cycles
C25_LdaAbsXNoCross ==
    /\ hist.op = "run" /\ hist.byte = \hBD
    /\ Cell(hist.mem, hist.pc + 1) = \h10 /\ Cell(hist.mem, hist.pc + 2) = \h00
    /\ hist.x = \h00
    /\ err = ""
    /\ cycles - hist.cycles = 5

\* C28: JMP (p) sets PC to read(p) | read((p & 0xFF00) | ((p + 1) & 0xFF)) << 8
\* for every p, leaves SP, A, X, Y and the flags alone and adds 5 cycles.
C28_JmpIndirect ==
    (hist.op = "run" /\ hist.byte = \h6C) =>
        LET p == Word(Cell(hist.mem, hist.pc + 1), Cell(hist.mem, hist.pc + 2))
            before == [Machine EXCEPT !.mem = hist.mem, !.status = hist.status]
            low == read(before, p)
            high == read(before, BitOr(BitAnd(p, \hFF00), BitAnd(p + 1, \h00FF)))
        IN  /\ err = ""
            /\ low # None /\ high # None
            /\ pc = BitOr(low, high * 256)
            /\ sp = hist.sp /\ acc = hist.acc /\ x = hist.x /\ y = hist.y
            /\ enabled_flags = hist.flag
            /\ cycles = hist.cycles + 5

\* C28, the failing case reached: JMP ($2000) raised TypeError and PC stayed
C28_JmpThroughPpuRegister ==
    /\ hist.op = "run" /\ hist.byte = \h6C
    /\ Word(Cell(hist.mem, hist.pc + 1), Cell(hist.mem, hist.pc + 2)) = \h2000
    /\ err = "TypeError"
    /\ pc = hist.pc
    /\ cycles = hist.cycles

\* C29: every absolute,X, absolute,Y and (indirect),Y instruction completes
\* without error and accesses (base + index) & 0xFFFF: memory, A, X, Y and
\* the flags end as the absolute form of the same instruction leaves them on
\* that address (as they were, for the iNOP forms).
C29_IndexedAddressWraps ==
    (hist.op = "run" /\ hist.byte \in AbsoluteX \cup AbsoluteY \cup IndirectY) =>
        LET operand == Cell(hist.mem, hist.pc + 1)
            base == IF hist.byte \in IndirectY
                    THEN Word(Cell(hist.mem, operand), Cell(hist.mem, (operand + 1) % \h100))
                    ELSE Word(operand, Cell(hist.mem, hist.pc + 2))
            index == IF hist.byte \in AbsoluteX THEN hist.x ELSE hist.y
            effective == (base + index) % \h10000
            absform == IF hist.byte % 16 \in {\h0C, \h0D, \h0E, \h0F} THEN hist.byte - \h10
                       ELSE IF hist.byte % 16 \in {\h09, \h0B} THEN hist.byte - \h0C
                       ELSE hist.byte - \h04
            before == [Machine EXCEPT !.mem = hist.mem, !.pc = hist.pc, !.sp = hist.sp,
                                      !.acc = hist.acc, !.x = hist.x, !.y = hist.y,
                                      !.cycles = hist.cycles, !.flag = hist.flag,
                                      !.err = ""]
            same == IF opcodes[hist.byte].mnemonic = "iNOP" THEN before
                    ELSE handler(before, absform, opcodes[absform], effective)
        IN  /\ err = ""
            /\ mem = same.mem
            /\ acc = same.acc
            /\ x = same.x
            /\ y = same.y
            /\ enabled_flags = same.flag

\* C29, the failing case reached: LDX $FFFF,Y with Y = 1 raised IndexError
C29_LdxAbsYPastMemory ==
    /\ hist.op = "run" /\ hist.byte = \hBE
    /\ Cell(hist.mem, hist.pc + 1) = \hFF /\ Cell(hist.mem, hist.pc + 2) = \hFF
    /\ hist.y = \h01
    /\ err = "IndexError"
    /\ x = hist.x

\* C33: after any sequence of Flag.set, Flag.clear, Flag.toggle and
\* Flag.set_byte, get_byte() is in [0, 255] and has bit 0x20 set.
C33_ReservedBitForced ==
    /\ get_byte(enabled_flags) \in 0 .. 255
    /\ Bit(get_byte(enabled_flags), \h20)

\* C33, the failing case reached: after a Flag operation the list is without
\* the reserved flag and get_byte() is 0x04
C33_ReservedCleared ==
    /\ hist.op = "flag"
    /\ enabled_flags = {Flag_I}
    /\ get_byte(enabled_flags) = \h04

\* C39: every CPU that is constructed starts with P = 0x24, whatever was done
\* to the Flag of a CPU constructed before.
C39_ConstructedFlags ==
    hist.op = "construct" => get_byte(enabled_flags) = \h24

\* C39, the failing case reached: the first CPU's Flag had C set while it
\* still used the list of the class, and the CPU constructed next has P = 0x25
C39_SecondCpuSeesCarry ==
    /\ hist.op = "construct"
    /\ ~own_flags
    /\ get_byte(enabled_flags) = \h25

\* C34: the B flag (0x10) is never in the live flags: the byte PHP pushes has
\* bit 0x10 set, and PLP and RTI do not copy bit 0x10 of the byte they pop.
C34_BNeverLive ==
    /\ Flag_B \notin enabled_flags
    /\ ~Bit(get_byte(enabled_flags), \h10)
    /\ (hist.op = "run" /\ hist.byte = \h08 /\ err = "" /\ hist.sp \in 0 .. 255) =>
           Bit(Cell(mem, \h100 + hist.sp), \h10)

\* C34 witness: PLP has popped the byte a PHP pushed, whose bit 0x10 is set,
\* and B is not in the flags
C34_Witness ==
    /\ hist.op = "run" /\ hist.byte = \h28 /\ err = ""
    /\ prev.op = "run" /\ prev.byte = \h08
    /\ Bit(Cell(hist.mem, \h100 + hist.sp + 1), \h10)
    /\ Flag_B \notin enabled_flags

\* C31: iRRA on a zero-page operand leaves memory, A, C, V, N and Z as ROR
\* on that operand followed by ADC of it does: the carry the ADC part adds
\* is the bit 0 rotated out of the old value.
C31_RraIsRorThenAdc ==
    (hist.op = "run" /\ hist.byte = \h67) =>
        LET o == Cell(hist.mem, hist.pc + 1)
            before == [Machine EXCEPT !.mem = hist.mem, !.pc = hist.pc, !.acc = hist.acc,
                                      !.cycles = hist.cycles, !.flag = hist.flag, !.err = ""]
            rotated == instruction_ROR(before, \h66, opcodes[\h66], o)
            added == instruction_ADC(rotated, \h65, opcodes[\h65], o)
        IN  /\ err = ""
            /\ mem = added.mem
            /\ acc = added.acc
            /\ \A f \in {Flag_C, Flag_V, Flag_N, Flag_Z} :
                   (f \in enabled_flags) = (f \in added.flag)

\* C31, the failing case reached: iRRA on the value 0x02 with A = 0 and C set
\* left 0x81 in memory and 0x82 in A
C31_StaleCarryAdded ==
    /\ hist.op = "run" /\ hist.byte = \h67 /\ err = ""
    /\ Cell(hist.mem, \h10) = \h02 /\ hist.acc = \h00 /\ Flag_C \in hist.flag
    /\ Cell(mem, \h10) = \h81
    /\ acc = \h82

\* C32: iSLO, iRLA, iSRE, iDCP and iISC on a zero-page operand leave memory,
\* A and the flags C, V, N and Z as their two component instructions run in
\* sequence on the same operand do (ASL then ORA, ROL then AND, LSR then EOR,
\* DEC then CMP, INC then SBC).
C32_CombinedIsSequence ==
    (hist.op = "run" /\ hist.byte \in {\h07, \h27, \h47, \hC7, \hE7}) =>
        LET o == Cell(hist.mem, hist.pc + 1)
            before == [Machine EXCEPT !.mem = hist.mem, !.pc = hist.pc, !.acc = hist.acc,
                                      !.cycles = hist.cycles, !.flag = hist.flag, !.err = ""]
            first == handler(before, hist.byte - 1, opcodes[hist.byte - 1], o)
            second == handler(first, hist.byte - 2, opcodes[hist.byte - 2], o)
        IN  /\ err = ""
            /\ mem = second.mem
            /\ acc = second.acc
            /\ \A f \in {Flag_C, Flag_V, Flag_N, Flag_Z} :
                   (f \in enabled_flags) = (f \in second.flag)

\* C32 witness: iISC on the value 0x7F with A = 0x80 and C set left 0x80 in
\* memory and 0 in A, with Z and C set
C32_Witness ==
    /\ hist.op = "run" /\ hist.byte = \hE7 /\ err = ""
    /\ Cell(hist.mem, \h10) = \h7F /\ hist.acc = \h80 /\ Flag_C \in hist.flag
    /\ Cell(mem, \h10) = \h80
    /\ acc = \h00
    /\ {Flag_Z, Flag_C} \subseteq enabled_flags

\* C35: after every PPU step, bit 7 of PPUSTATUS is 1 exactly when the PPU
\* cycle counter modulo 262 * 341 is >= 240 * 341; in particular it is set by
\* the step at which the counter modulo the frame length is 240 * 341.
C35_StatusFollowsCounter ==
    /\ (hist.op = "ppu" /\ err = "") =>
           Bit(status, \h80) = (ppu_cycles % CYCLES_PER_FRAME >= CYCLE_POSTRENDER)
    /\ (hist.op = "ppu" /\ hist.ppu_cycles % CYCLES_PER_FRAME = CYCLE_POSTRENDER) =>
           Bit(status, \h80)

\* C35, the failing case reached: the step taken at 240 * 341 cleared bit 7,
\* and the counter is 240 * 341 + 1
C35_ClearAtPostRender ==
    /\ hist.op = "ppu" /\ err = ""
    /\ hist.ppu_cycles = CYCLE_POSTRENDER
    /\ ppu_cycles = CYCLE_POSTRENDER + 1
    /\ ~Bit(status, \h80)

\* C36: every call of PPU.run increases PPU.cycles by exactly 1, the call
\* that signals NMI at 241 * 341 with PPUCTRL bit 7 set included.
C36_EveryStepCounts ==
    hist.op = "ppu" => ppu_cycles = hist.ppu_cycles + 1

\* C36, the failing case reached: the call at 241 * 341 with PPUCTRL bit 7
\* set entered handle_nmi, which raised, and PPU.cycles is what it was
C36_NmiStepNotCounted ==
    /\ hist.op = "ppu"
    /\ hist.ppu_cycles % CYCLES_PER_FRAME = CYCLE_VBLANK
    /\ Bit(hist.control, \h80)
    /\ nmi.taken /\ err = "nmi"
    /\ ppu_cycles = hist.ppu_cycles

\* C37: with PPUCTRL bit 7 set and a host that goes on calling CPU.run after
\* an NMI was delivered, the run that follows a delivery advances the PPU
\* counter and enters no second NMI: NMI is delivered once per frame.
C37_NmiOncePerFrame ==
    (hist.op = "resume" /\ Bit(hist.control, \h80)) =>
        /\ ppu_cycles > hist.ppu_cycles
        /\ ~nmi.taken

\* C37, the failing case reached: the run that followed a delivery was an RTI;
\* the PPU counter is still 241 * 341 and NMI was entered again
C37_NmiAgainAtOnce ==
    /\ hist.op = "resume" /\ hist.byte = \h40
    /\ Bit(hist.control, \h80)
    /\ hist.ppu_cycles = CYCLE_VBLANK
    /\ ppu_cycles = CYCLE_VBLANK
    /\ nmi.taken /\ err = "nmi"

\* C38: with NMI disabled and a host that goes on calling CPU.run on the
\* polling program, no error is raised and bit 7 as read from 0x2002 changes,
\* from clear to set and from set to clear, within every 262 * 341 cycles: each
\* polling loop is left, the first after a read with bit 7 set and the second
\* after a read with bit 7 clear, again and again.
C38_VBlankSeen ==
    (Cell(mem, \h8001) = \h00 /\ hist.op = "run") =>
        /\ err = ""
        /\ cycles > hist.cycles
        /\ cycles - hist.data <= CYCLES_PER_FRAME
        /\ pc = \h800A => Bit(acc, \h80)
        /\ pc = \h800F => ~Bit(acc, \h80)

\* C38 witness: the polling loop has left its first half in the second frame:
\* LDA $2002 read bit 7 set and BPL was not taken
C38_Witness ==
    /\ control = 0 /\ err = ""
    /\ hist.op = "run" /\ hist.byte = \h10 /\ hist.pc = \h8008
    /\ Bit(acc, \h80)
    /\ pc = \h800A
    /\ ppu_cycles > CYCLES_PER_FRAME + CYCLE_POSTRENDER
    /\ hist.data > CYCLES_PER_FRAME

====
